---------------------------- MODULE Spec2Model ----------------------------
(***************************************************************************)
(* Pipeline execution engine of the SOF audio firmware: the component      *)
(* state machine (comp_set_state), the ring buffer transfer primitive      *)
(* (comp_update_buffer_produce / comp_update_buffer_consume) and the       *)
(* pipeline graph walks with XRUN detection and recovery.                  *)
(***************************************************************************)
EXTENDS Integers, Sequences, FiniteSets, TLC

VARIABLES
    \* --- one component driven directly through comp_set_state -----------
    dev_state,      \* dev->state
    fsm_call,       \* the last comp_set_state call: [cmd, from, ret], or NoCall
    fsm_prev,       \* the call before it
    \* --- one ring buffer (struct comp_buffer) ----------------------------
    buf,            \* [size, r_ptr, w_ptr, avail, free]; cursors are offsets from addr
    tpc,            \* task context: "idle", or "produce"/"consume" between entry and critical section
    cb_data,        \* the task context's struct buffer_cb_transact (amount, begin address)
    buf_op,         \* the last completed call: [ctx, op, bytes, pre, notified]
    notif,          \* the last transaction notification delivered: [id, amount, begin]
    tentry,         \* the task context's last call: the buffer when it entered and the
                    \* interrupt-context transactions since, up to its critical section (history)
    \* --- one component/buffer graph and its pipelines --------------------
    topo,           \* the topology the host declared (fixed after construction)
    cstate,         \* comp -> comp_dev.state
    cdir,           \* comp -> comp_dev.direction
    cppl,           \* comp -> comp_dev.pipeline (a pipeline, or NULL)
    pstatus,        \* pipeline -> pipeline.status
    xrun_bytes,     \* pipeline -> pipeline.xrun_bytes
    source_comp,    \* pipeline -> pipeline.source_comp (or NULL)
    sink_comp,      \* pipeline -> pipeline.sink_comp (or NULL)
    pipe_task,      \* pipeline -> TRUE when pipeline.pipe_task is allocated
    sched_on,       \* pipeline -> TRUE while the task is registered with the scheduler
    plog,           \* the calls and effects of the last operation, in order
    pcall,          \* the last operation: [op, p, dev, cmd, bytes, ret, pre]
    recoveries,     \* pipeline -> recovery attempts of the task runs since the last
                    \* host command or run without one (history, saturating)
    \* --- one component during parameter propagation ----------------------
    frames_call,    \* pipeline_comp_period_frames: [rate, output_rate, period, frames, done]
    resize_call,    \* the last buffer_set_size on the ring buffer: [size, ret, pre, done]
    \* --- the M/N clock dividers, mn.c -------------------------------------
    ssp_freq,           \* the platform's table of SSP source clock frequencies
    mclk_sources_used,  \* MCLK id -> mn.mclk_sources_used[id]
    mclk_source_clock,  \* mn.mclk_source_clock, an index of ssp_freq
    mdivctrl,           \* the source select bits set in MN_MDIVCTRL
    mdivr,              \* MCLK id -> the value written to MN_MDIVR(id), if any
    mn_call             \* the last call: [op, mclk_id, mclk_rate, ret, pre]

fsm_vars == <<dev_state, fsm_call, fsm_prev>>
buf_vars == <<buf, tpc, cb_data, buf_op, notif, tentry>>
ppl_vars == <<topo, cstate, cdir, cppl, pstatus, xrun_bytes, source_comp, sink_comp,
              pipe_task, sched_on, plog, pcall, recoveries>>
par_vars == <<frames_call, resize_call>>
mn_vars == <<ssp_freq, mclk_sources_used, mclk_source_clock, mdivctrl, mdivr, mn_call>>
vars == <<fsm_vars, buf_vars, ppl_vars, par_vars, mn_vars>>

-----------------------------------------------------------------------------
(* Component states and trigger commands, component.h *)

COMP_STATE_INIT == 0
COMP_STATE_READY == 1
COMP_STATE_SUSPEND == 2
COMP_STATE_PREPARE == 3
COMP_STATE_PAUSED == 4
COMP_STATE_ACTIVE == 5

COMP_TRIGGER_STOP == 0
COMP_TRIGGER_START == 1
COMP_TRIGGER_PAUSE == 2
COMP_TRIGGER_RELEASE == 3
COMP_TRIGGER_SUSPEND == 4
COMP_TRIGGER_RESUME == 5
COMP_TRIGGER_RESET == 6
COMP_TRIGGER_PREPARE == 7
COMP_TRIGGER_XRUN == 8

COMP_STATUS_STATE_ALREADY_SET == 1

EINVAL == 22

\* The states a component is driven through (SUSPEND is never set by comp_set_state).
CompStates == {COMP_STATE_INIT, COMP_STATE_READY, COMP_STATE_PREPARE,
               COMP_STATE_PAUSED, COMP_STATE_ACTIVE}

\* The stream commands of the transition table.
StreamCmds == {COMP_TRIGGER_STOP, COMP_TRIGGER_START, COMP_TRIGGER_PAUSE,
               COMP_TRIGGER_RELEASE, COMP_TRIGGER_RESET, COMP_TRIGGER_PREPARE,
               COMP_TRIGGER_XRUN}

\* Every command value comp_set_state can be handed.
AllCmds == StreamCmds \cup {COMP_TRIGGER_SUSPEND, COMP_TRIGGER_RESUME}

comp_get_requested_state(cmd) ==
    CASE cmd \in {COMP_TRIGGER_START, COMP_TRIGGER_RELEASE} -> COMP_STATE_ACTIVE
      [] cmd \in {COMP_TRIGGER_PREPARE, COMP_TRIGGER_STOP} -> COMP_STATE_PREPARE
      [] cmd = COMP_TRIGGER_PAUSE -> COMP_STATE_PAUSED
      [] cmd \in {COMP_TRIGGER_XRUN, COMP_TRIGGER_RESET} -> COMP_STATE_READY
      [] OTHER -> COMP_STATE_INIT

\* set_state_switch with a STOP of an ACTIVE component pausing it.
set_state_switch_StopPauses(state, cmd) ==
    CASE cmd = COMP_TRIGGER_START /\ state = COMP_STATE_PREPARE ->
            [state |-> COMP_STATE_ACTIVE, ret |-> 0]
      [] cmd = COMP_TRIGGER_RELEASE /\ state = COMP_STATE_PAUSED ->
            [state |-> COMP_STATE_ACTIVE, ret |-> 0]
      [] cmd = COMP_TRIGGER_STOP /\ state = COMP_STATE_ACTIVE ->
            [state |-> COMP_STATE_PAUSED, ret |-> 0]
      [] cmd = COMP_TRIGGER_STOP /\ state = COMP_STATE_PAUSED ->
            [state |-> COMP_STATE_PREPARE, ret |-> 0]
      [] cmd = COMP_TRIGGER_PAUSE /\ state = COMP_STATE_ACTIVE ->
            [state |-> COMP_STATE_PAUSED, ret |-> 0]
      [] cmd = COMP_TRIGGER_PREPARE /\ state = COMP_STATE_READY ->
            [state |-> COMP_STATE_PREPARE, ret |-> 0]
      [] cmd \in {COMP_TRIGGER_XRUN, COMP_TRIGGER_RESET} ->
            [state |-> COMP_STATE_READY, ret |-> 0]
      [] cmd \in {COMP_TRIGGER_SUSPEND, COMP_TRIGGER_RESUME} ->
            [state |-> state, ret |-> 0]
      [] OTHER -> [state |-> state, ret |-> -EINVAL]

\* set_state_switch with RESET refused while the component runs or pauses.
set_state_switch_ResetNeedsStop(state, cmd) ==
    CASE cmd = COMP_TRIGGER_START /\ state = COMP_STATE_PREPARE ->
            [state |-> COMP_STATE_ACTIVE, ret |-> 0]
      [] cmd = COMP_TRIGGER_RELEASE /\ state = COMP_STATE_PAUSED ->
            [state |-> COMP_STATE_ACTIVE, ret |-> 0]
      [] cmd = COMP_TRIGGER_STOP /\ state \in {COMP_STATE_ACTIVE, COMP_STATE_PAUSED} ->
            [state |-> COMP_STATE_PREPARE, ret |-> 0]
      [] cmd = COMP_TRIGGER_PAUSE /\ state = COMP_STATE_ACTIVE ->
            [state |-> COMP_STATE_PAUSED, ret |-> 0]
      [] cmd = COMP_TRIGGER_PREPARE /\ state = COMP_STATE_READY ->
            [state |-> COMP_STATE_PREPARE, ret |-> 0]
      [] cmd = COMP_TRIGGER_XRUN ->
            [state |-> COMP_STATE_READY, ret |-> 0]
      [] cmd = COMP_TRIGGER_RESET /\ state \notin {COMP_STATE_ACTIVE, COMP_STATE_PAUSED} ->
            [state |-> COMP_STATE_READY, ret |-> 0]
      [] cmd \in {COMP_TRIGGER_SUSPEND, COMP_TRIGGER_RESUME} ->
            [state |-> state, ret |-> 0]
      [] OTHER -> [state |-> state, ret |-> -EINVAL]

\* The switch of comp_set_state, reached when the state is not already set.
set_state_switch(state, cmd) ==
    CASE cmd = COMP_TRIGGER_START ->
            IF state = COMP_STATE_PREPARE
            THEN [state |-> COMP_STATE_ACTIVE, ret |-> 0]
            ELSE [state |-> state, ret |-> -EINVAL]
      [] cmd = COMP_TRIGGER_RELEASE ->
            IF state = COMP_STATE_PAUSED
            THEN [state |-> COMP_STATE_ACTIVE, ret |-> 0]
            ELSE [state |-> state, ret |-> -EINVAL]
      [] cmd = COMP_TRIGGER_STOP ->
            IF state = COMP_STATE_ACTIVE \/ state = COMP_STATE_PAUSED
            THEN [state |-> COMP_STATE_PREPARE, ret |-> 0]
            ELSE [state |-> state, ret |-> -EINVAL]
      [] cmd = COMP_TRIGGER_XRUN ->
            [state |-> COMP_STATE_READY, ret |-> 0]
      [] cmd = COMP_TRIGGER_PAUSE ->
            IF state = COMP_STATE_ACTIVE
            THEN [state |-> COMP_STATE_PAUSED, ret |-> 0]
            ELSE [state |-> state, ret |-> -EINVAL]
      [] cmd = COMP_TRIGGER_RESET ->
            [state |-> COMP_STATE_READY, ret |-> 0]
      [] cmd = COMP_TRIGGER_PREPARE ->
            IF state = COMP_STATE_READY
            THEN [state |-> COMP_STATE_PREPARE, ret |-> 0]
            ELSE [state |-> state, ret |-> -EINVAL]
      [] OTHER -> [state |-> state, ret |-> 0]

\* comp_set_state without the check for a state already set.
comp_set_state_NoAlreadySet(state, cmd) == set_state_switch(state, cmd)

\* comp_set_state with stop allowed from ACTIVE only.
comp_set_state_StopFromActiveOnly(state, cmd) ==
    IF state = comp_get_requested_state(cmd)
    THEN [state |-> state, ret |-> COMP_STATUS_STATE_ALREADY_SET]
    ELSE IF cmd = COMP_TRIGGER_STOP /\ state = COMP_STATE_PAUSED
         THEN [state |-> state, ret |-> -EINVAL]
         ELSE set_state_switch(state, cmd)

\* int comp_set_state(struct comp_dev *dev, int cmd): the new dev->state and
\* the value returned.
comp_set_state(state, cmd) ==
    IF state = comp_get_requested_state(cmd)
    THEN [state |-> state, ret |-> COMP_STATUS_STATE_ALREADY_SET]
    ELSE set_state_switch(state, cmd)

NoCall == [cmd |-> -1, from |-> -1, ret |-> 0]

FsmInit ==
    /\ dev_state \in CompStates
    /\ fsm_call = NoCall
    /\ fsm_prev = NoCall

\* One call of comp_set_state(dev, cmd) on the component.
SetState(cmd) ==
    LET r == comp_set_state(dev_state, cmd) IN
    /\ dev_state' = r.state
    /\ fsm_prev' = fsm_call
    /\ fsm_call' = [cmd |-> cmd, from |-> dev_state, ret |-> r.ret]

FsmStep == \E cmd \in AllCmds : SetState(cmd)


-----------------------------------------------------------------------------
(* Ring buffer transfer primitive, buffer.c *)

\* Largest buffer capacity and largest byte count of one call in the model.
MaxSize == 3
MaxBytes == 4

\* Most interrupt-context transactions between the entry of a task-context
\* call and its critical section.
MaxIrqs == 2

NOTIFIER_ID_BUFFER_PRODUCE == "produce"
NOTIFIER_ID_BUFFER_CONSUME == "consume"

\* buffer_init(buffer, size, caps), as called from buffer_alloc: both cursors
\* at addr, nothing available.
buffer_init(size) ==
    [size |-> size, r_ptr |-> 0, w_ptr |-> 0, avail |-> 0, free |-> size]

\* ptr_wrap that lets a cursor rest on end_addr.
ptr_wrap_PastEnd(ptr, size) == IF ptr > size THEN ptr - size ELSE ptr

\* "check for pointer wrap": one conditional wrap at end_addr = addr + size.
ptr_wrap(ptr, size) == IF ptr >= size THEN ptr - size ELSE ptr

\* produce_avail with the equal-cursor case of consume (empty, not full).
produce_avail_EqualMeansEmpty(r_ptr, w_ptr, size) ==
    IF r_ptr < w_ptr THEN w_ptr - r_ptr
    ELSE IF r_ptr = w_ptr THEN 0
    ELSE size - (r_ptr - w_ptr)

\* "calculate available bytes" after a produce: equal cursors mean full.
produce_avail(r_ptr, w_ptr, size) ==
    IF r_ptr < w_ptr THEN w_ptr - r_ptr
    ELSE IF r_ptr = w_ptr THEN size
    ELSE size - (r_ptr - w_ptr)

\* "calculate available bytes" after a consume: equal cursors mean empty.
consume_avail(r_ptr, w_ptr, size) ==
    IF r_ptr < w_ptr THEN w_ptr - r_ptr
    ELSE IF r_ptr = w_ptr THEN 0
    ELSE size - (r_ptr - w_ptr)

\* produce_update with free decremented by the bytes written instead of
\* recomputed from avail.
produce_update_FreeDecrement(b, bytes) ==
    LET w == ptr_wrap(b.w_ptr + bytes, b.size)
        r == IF bytes > b.free THEN w ELSE b.r_ptr
        a == produce_avail(r, w, b.size)
    IN [size |-> b.size, r_ptr |-> r, w_ptr |-> w, avail |-> a, free |-> b.free - bytes]

\* produce_update without the overwrite of old data: the read cursor stays.
produce_update_NoOverwrite(b, bytes) ==
    LET w == ptr_wrap(b.w_ptr + bytes, b.size)
        a == produce_avail(b.r_ptr, w, b.size)
    IN [size |-> b.size, r_ptr |-> b.r_ptr, w_ptr |-> w, avail |-> a, free |-> b.size - a]

\* The critical section of comp_update_buffer_produce(buffer, bytes), bytes > 0.
produce_update(b, bytes) ==
    LET w == ptr_wrap(b.w_ptr + bytes, b.size)
        r == IF bytes > b.free THEN w ELSE b.r_ptr
        a == produce_avail(r, w, b.size)
    IN [size |-> b.size, r_ptr |-> r, w_ptr |-> w, avail |-> a, free |-> b.size - a]

\* The critical section of comp_update_buffer_consume(buffer, bytes), bytes > 0.
consume_update(b, bytes) ==
    LET r == ptr_wrap(b.r_ptr + bytes, b.size)
        a == consume_avail(r, b.w_ptr, b.size)
    IN [size |-> b.size, r_ptr |-> r, w_ptr |-> b.w_ptr, avail |-> a, free |-> b.size - a]

NoCb == [amount |-> 0, begin |-> 0]
NoOp == [ctx |-> "none", op |-> "none", bytes |-> 0, pre |-> buffer_init(1), notified |-> 0]
NoNotif == [id |-> "none", amount |-> 0, begin |-> 0]
NoEntry == [buf |-> buffer_init(1), irqs |-> <<>>]

\* One whole comp_update_buffer_produce / comp_update_buffer_consume call.
transaction(b, op, bytes) ==
    IF bytes = 0 THEN b
    ELSE IF op = "produce" THEN produce_update(b, bytes)
    ELSE consume_update(b, bytes)

\* The history after an interrupt-context transaction: kept while a
\* task-context call is open, dropped otherwise.
irq_seen(op, bytes) ==
    IF tpc = "idle" THEN NoEntry
    ELSE [tentry EXCEPT !.irqs = Append(@, [op |-> op, bytes |-> bytes])]

\* An interrupt finds the task context idle, or inside a call that fewer than
\* MaxIrqs interrupts have met.
irq_window == tpc = "idle" \/ Len(tentry.irqs) < MaxIrqs

BufInit ==
    /\ \E size \in 1..MaxSize : buf = buffer_init(size)
    /\ tpc = "idle"
    /\ cb_data = NoCb
    /\ buf_op = NoOp
    /\ notif = NoNotif
    /\ tentry = NoEntry

\* The byte counts a caller hands to produce: the data is already in the
\* buffer's memory, so one transaction is at most the capacity.
ProduceBytes == {n \in 0..MaxBytes : n <= buf.size}

\* The byte counts a caller hands to consume: never more than is available.
ConsumeBytes == {n \in 0..MaxBytes : n <= buf.avail}

\* Task context enters comp_update_buffer_produce: cb_data is initialised from
\* the buffer, and the call returns at once when there are no bytes.
TaskProduceEnter(bytes) ==
    /\ tpc = "idle"
    /\ cb_data' = [amount |-> bytes, begin |-> buf.w_ptr]
    /\ tentry' = IF bytes = 0 THEN NoEntry ELSE [buf |-> buf, irqs |-> <<>>]
    /\ IF bytes = 0
       THEN /\ tpc' = "idle"
            /\ buf_op' = [ctx |-> "task", op |-> "produce", bytes |-> 0,
                          pre |-> buf, notified |-> 0]
       ELSE /\ tpc' = "produce"
            /\ UNCHANGED buf_op
    /\ UNCHANGED <<buf, notif>>

\* TaskProduceCommit working on the cursors and counts read when the call
\* was entered, before interrupts were disabled.
TaskProduceCommit_FromEntry ==
    /\ tpc = "produce"
    /\ buf' = produce_update(tentry.buf, cb_data.amount)
    /\ notif' = [id |-> NOTIFIER_ID_BUFFER_PRODUCE, amount |-> cb_data.amount,
                 begin |-> cb_data.begin]
    /\ buf_op' = [ctx |-> "task", op |-> "produce", bytes |-> cb_data.amount,
                  pre |-> buf, notified |-> 1]
    /\ tpc' = "idle"
    /\ UNCHANGED <<cb_data, tentry>>

\* Task context runs the critical section of produce (irq_local_disable ..
\* irq_local_enable): cursors, avail, free and the notification.
TaskProduceCommit ==
    /\ tpc = "produce"
    /\ buf' = produce_update(buf, cb_data.amount)
    /\ notif' = [id |-> NOTIFIER_ID_BUFFER_PRODUCE, amount |-> cb_data.amount,
                 begin |-> cb_data.begin]
    /\ buf_op' = [ctx |-> "task", op |-> "produce", bytes |-> cb_data.amount,
                  pre |-> buf, notified |-> 1]
    /\ tpc' = "idle"
    /\ UNCHANGED <<cb_data, tentry>>

\* Task context enters comp_update_buffer_consume.
TaskConsumeEnter(bytes) ==
    /\ tpc = "idle"
    /\ cb_data' = [amount |-> bytes, begin |-> buf.r_ptr]
    /\ tentry' = IF bytes = 0 THEN NoEntry ELSE [buf |-> buf, irqs |-> <<>>]
    /\ IF bytes = 0
       THEN /\ tpc' = "idle"
            /\ buf_op' = [ctx |-> "task", op |-> "consume", bytes |-> 0,
                          pre |-> buf, notified |-> 0]
       ELSE /\ tpc' = "consume"
            /\ UNCHANGED buf_op
    /\ UNCHANGED <<buf, notif>>

\* Task context runs the critical section of consume.
TaskConsumeCommit ==
    /\ tpc = "consume"
    /\ buf' = consume_update(buf, cb_data.amount)
    /\ notif' = [id |-> NOTIFIER_ID_BUFFER_CONSUME, amount |-> cb_data.amount,
                 begin |-> cb_data.begin]
    /\ buf_op' = [ctx |-> "task", op |-> "consume", bytes |-> cb_data.amount,
                  pre |-> buf, notified |-> 1]
    /\ tpc' = "idle"
    /\ UNCHANGED <<cb_data, tentry>>

\* IrqProduce without the return for no bytes: the notification is sent.
IrqProduce_NotifiesNoBytes(bytes) ==
    /\ tpc # "produce"
    /\ irq_window
    /\ tentry' = irq_seen("produce", bytes)
    /\ buf' = transaction(buf, "produce", bytes)
    /\ notif' = [id |-> NOTIFIER_ID_BUFFER_PRODUCE, amount |-> bytes, begin |-> buf.w_ptr]
    /\ buf_op' = [ctx |-> "irq", op |-> "produce", bytes |-> bytes, pre |-> buf,
                  notified |-> 1]
    /\ UNCHANGED <<tpc, cb_data>>

\* A whole comp_update_buffer_produce in interrupt context (a DMA completion
\* handler); the buffer has one producer at a time, so not while the task
\* context is inside a produce.
IrqProduce(bytes) ==
    /\ tpc # "produce"
    /\ irq_window
    /\ tentry' = irq_seen("produce", bytes)
    /\ IF bytes = 0
       THEN UNCHANGED <<buf, notif>>
       ELSE /\ buf' = produce_update(buf, bytes)
            /\ notif' = [id |-> NOTIFIER_ID_BUFFER_PRODUCE, amount |-> bytes,
                         begin |-> buf.w_ptr]
    /\ buf_op' = [ctx |-> "irq", op |-> "produce", bytes |-> bytes, pre |-> buf,
                  notified |-> IF bytes = 0 THEN 0 ELSE 1]
    /\ UNCHANGED <<tpc, cb_data>>

\* A whole comp_update_buffer_consume in interrupt context; one consumer at a
\* time.
IrqConsume(bytes) ==
    /\ tpc # "consume"
    /\ irq_window
    /\ tentry' = irq_seen("consume", bytes)
    /\ IF bytes = 0
       THEN UNCHANGED <<buf, notif>>
       ELSE /\ buf' = consume_update(buf, bytes)
            /\ notif' = [id |-> NOTIFIER_ID_BUFFER_CONSUME, amount |-> bytes,
                         begin |-> buf.r_ptr]
    /\ buf_op' = [ctx |-> "irq", op |-> "consume", bytes |-> bytes, pre |-> buf,
                  notified |-> IF bytes = 0 THEN 0 ELSE 1]
    /\ UNCHANGED <<tpc, cb_data>>

BufProduceEnter == \E n \in ProduceBytes : TaskProduceEnter(n)
BufConsumeEnter == \E n \in ConsumeBytes : TaskConsumeEnter(n)
BufIrqProduce == \E n \in ProduceBytes : IrqProduce(n)
BufIrqConsume == \E n \in ConsumeBytes : IrqConsume(n)


-----------------------------------------------------------------------------
(* Component/buffer graph, pipeline.c *)

NULL == 0

PPL_DIR_DOWNSTREAM == 0
PPL_DIR_UPSTREAM == 1
SOF_IPC_STREAM_PLAYBACK == 0
SOF_IPC_STREAM_CAPTURE == 1

PPL_STATUS_PATH_STOP == 1

ENOMEM == 12
EBUSY == 16

SOF_COMP_HOST == "host"
SOF_COMP_VOLUME == "volume"
SOF_COMP_DAI == "dai"
SOF_COMP_KEYWORD_DETECT == "keyword"

COMP_ENDPOINT_HOST == "endpoint_host"
COMP_ENDPOINT_DAI == "endpoint_dai"
COMP_ENDPOINT_NODE == "endpoint_node"

SOF_TASK_STATE_COMPLETED == 5
SOF_TASK_STATE_RESCHEDULE == 8

\* Component ids of the three-component chain of one pipeline.
HostId == 1
VolumeId == 2
DaiId == 3

\* Host -> buffer 1 -> Volume -> buffer 2 -> DAI, a playback stream; the
\* pipeline is scheduled by component sched.
ChainPlayback(sched) ==
    [comps |-> {HostId, VolumeId, DaiId},
     type |-> <<SOF_COMP_HOST, SOF_COMP_VOLUME, SOF_COMP_DAI>>,
     pipeline_id |-> <<1, 1, 1>>,
     bsource_list |-> << <<>>, <<1>>, <<2>> >>,
     bsink_list |-> << <<1>>, <<2>>, <<>> >>,
     buf_source |-> <<HostId, VolumeId>>,
     buf_sink |-> <<VolumeId, DaiId>>,
     pipes |-> {1},
     sched_comp |-> <<sched>>,
     direction |-> <<SOF_IPC_STREAM_PLAYBACK>>,
     host |-> <<HostId>>]

\* DAI -> buffer 1 -> Volume -> buffer 2 -> Host, a capture stream.
ChainCapture(sched) ==
    [comps |-> {HostId, VolumeId, DaiId},
     type |-> <<SOF_COMP_HOST, SOF_COMP_VOLUME, SOF_COMP_DAI>>,
     pipeline_id |-> <<1, 1, 1>>,
     bsource_list |-> << <<2>>, <<1>>, <<>> >>,
     bsink_list |-> << <<>>, <<2>>, <<1>> >>,
     buf_source |-> <<DaiId, VolumeId>>,
     buf_sink |-> <<VolumeId, HostId>>,
     pipes |-> {1},
     sched_comp |-> <<sched>>,
     direction |-> <<SOF_IPC_STREAM_CAPTURE>>,
     host |-> <<HostId>>]

\* The chains with a processing component that has the hooks of the keyword
\* detector in place of the volume.
KeywordPlayback == [ChainPlayback(DaiId) EXCEPT !.type[VolumeId] = SOF_COMP_KEYWORD_DETECT]
KeywordCapture == [ChainCapture(DaiId) EXCEPT !.type[VolumeId] = SOF_COMP_KEYWORD_DETECT]

\* Two connected playback pipelines: Host -> buffer 1 -> Volume in pipeline 1,
\* buffer 2 -> DAI in pipeline 2; sched1 and DaiId schedule them. Pipeline 2
\* has no host component of its own.
ConnectedPlayback(sched1) ==
    [comps |-> {HostId, VolumeId, DaiId},
     type |-> <<SOF_COMP_HOST, SOF_COMP_VOLUME, SOF_COMP_DAI>>,
     pipeline_id |-> <<1, 1, 2>>,
     bsource_list |-> << <<>>, <<1>>, <<2>> >>,
     bsink_list |-> << <<1>>, <<2>>, <<>> >>,
     buf_source |-> <<HostId, VolumeId>>,
     buf_sink |-> <<VolumeId, DaiId>>,
     pipes |-> {1, 2},
     sched_comp |-> <<sched1, DaiId>>,
     direction |-> <<SOF_IPC_STREAM_PLAYBACK, SOF_IPC_STREAM_PLAYBACK>>,
     host |-> <<HostId, NULL>>]

\* Pipeline 1: Host; pipeline 2: Volume -> DAI; Host -> buffer 1 -> Volume.
\* Each pipeline is scheduled by a component of its own.
CrossPlayback ==
    [comps |-> {HostId, VolumeId, DaiId},
     type |-> <<SOF_COMP_HOST, SOF_COMP_VOLUME, SOF_COMP_DAI>>,
     pipeline_id |-> <<1, 2, 2>>,
     bsource_list |-> << <<>>, <<1>>, <<2>> >>,
     bsink_list |-> << <<1>>, <<2>>, <<>> >>,
     buf_source |-> <<HostId, VolumeId>>,
     buf_sink |-> <<VolumeId, DaiId>>,
     pipes |-> {1, 2},
     sched_comp |-> <<HostId, DaiId>>,
     direction |-> <<SOF_IPC_STREAM_PLAYBACK, SOF_IPC_STREAM_PLAYBACK>>,
     host |-> <<HostId, NULL>>]

\* As CrossPlayback, with a second Volume in place of the DAI: the sink of
\* pipeline 2 is a generic component.
CrossPlaybackNode ==
    [CrossPlayback EXCEPT !.type = <<SOF_COMP_HOST, SOF_COMP_VOLUME, SOF_COMP_VOLUME>>]

\* Pipeline 1: Host, a capture stream; pipeline 2: Volume -> buffer 2 -> DAI;
\* Volume -> buffer 1 -> Host.
CrossCapture ==
    [comps |-> {HostId, VolumeId, DaiId},
     type |-> <<SOF_COMP_HOST, SOF_COMP_VOLUME, SOF_COMP_DAI>>,
     pipeline_id |-> <<1, 2, 2>>,
     bsource_list |-> << <<1>>, <<>>, <<2>> >>,
     bsink_list |-> << <<>>, <<2, 1>>, <<>> >>,
     buf_source |-> <<VolumeId, VolumeId>>,
     buf_sink |-> <<HostId, DaiId>>,
     pipes |-> {1, 2},
     sched_comp |-> <<HostId, DaiId>>,
     direction |-> <<SOF_IPC_STREAM_CAPTURE, SOF_IPC_STREAM_PLAYBACK>>,
     host |-> <<HostId, NULL>>]

\* Pipeline 2: DAI -> buffer 1 -> second Host (component 2), a capture stream;
\* pipeline 1: the Host, which captures from the same DAI through buffer 2.
TapCapture ==
    [comps |-> {HostId, VolumeId, DaiId},
     type |-> <<SOF_COMP_HOST, SOF_COMP_HOST, SOF_COMP_DAI>>,
     pipeline_id |-> <<1, 2, 2>>,
     bsource_list |-> << <<2>>, <<1>>, <<>> >>,
     bsink_list |-> << <<>>, <<>>, <<2, 1>> >>,
     buf_source |-> <<DaiId, DaiId>>,
     buf_sink |-> <<VolumeId, HostId>>,
     pipes |-> {1, 2},
     sched_comp |-> <<HostId, DaiId>>,
     direction |-> <<SOF_IPC_STREAM_CAPTURE, SOF_IPC_STREAM_CAPTURE>>,
     host |-> <<HostId, VolumeId>>]

\* Host -> buffer 1 -> Volume -> buffer 2 -> DAI and Host -> buffer 3 -> DAI:
\* the Host feeds two buffers and the two paths join at the DAI. The buffers
\* were connected in the order of their numbers, each at the head of the list
\* (list_item_prepend).
JoinPlayback ==
    [comps |-> {HostId, VolumeId, DaiId},
     type |-> <<SOF_COMP_HOST, SOF_COMP_VOLUME, SOF_COMP_DAI>>,
     pipeline_id |-> <<1, 1, 1>>,
     bsource_list |-> << <<>>, <<1>>, <<3, 2>> >>,
     bsink_list |-> << <<3, 1>>, <<2>>, <<>> >>,
     buf_source |-> <<HostId, VolumeId, HostId>>,
     buf_sink |-> <<VolumeId, DaiId, DaiId>>,
     pipes |-> {1},
     sched_comp |-> <<DaiId>>,
     direction |-> <<SOF_IPC_STREAM_PLAYBACK>>,
     host |-> <<HostId>>]

\* DAI -> buffer 1 -> Volume -> buffer 2 -> Host and DAI -> buffer 3 -> Host,
\* a capture stream.
JoinCapture ==
    [comps |-> {HostId, VolumeId, DaiId},
     type |-> <<SOF_COMP_HOST, SOF_COMP_VOLUME, SOF_COMP_DAI>>,
     pipeline_id |-> <<1, 1, 1>>,
     bsource_list |-> << <<3, 2>>, <<1>>, <<>> >>,
     bsink_list |-> << <<>>, <<2>>, <<3, 1>> >>,
     buf_source |-> <<DaiId, VolumeId, DaiId>>,
     buf_sink |-> <<VolumeId, HostId, HostId>>,
     pipes |-> {1},
     sched_comp |-> <<DaiId>>,
     direction |-> <<SOF_IPC_STREAM_CAPTURE>>,
     host |-> <<HostId>>]

JoinTopologies == {JoinPlayback, JoinCapture}

CrossTopologies == {CrossPlayback, CrossPlaybackNode, CrossCapture, TapCapture}

\* The topologies of one pipeline, and those of two connected pipelines.
Topologies ==
    {ChainPlayback(DaiId), ChainPlayback(HostId), ChainCapture(DaiId), ChainCapture(HostId),
     KeywordPlayback, KeywordCapture}

ConnectedTopologies == {ConnectedPlayback(DaiId), ConnectedPlayback(VolumeId)}

\* The mutable state the graph walks read and write, as one record.
World ==
    [cstate |-> cstate, cdir |-> cdir, cppl |-> cppl, pstatus |-> pstatus,
     xrun_bytes |-> xrun_bytes, source_comp |-> source_comp, sink_comp |-> sink_comp,
     pipe_task |-> pipe_task, sched_on |-> sched_on, log |-> <<>>]

\* One entry of the log of an operation.
Ev(ev, comp, arg, ret) ==
    [ev |-> ev, comp |-> comp, arg |-> arg, ret |-> ret, state |-> 0, status |-> 0]

\* A call of drv->ops.copy on dev that returns ret, with what the call finds:
\* the state of dev and the status of its pipeline.
CopyEv(st, dev, ret) ==
    [ev |-> "copy", comp |-> dev, arg |-> 0, ret |-> ret,
     state |-> st.cstate[dev], status |-> st.pstatus[st.cppl[dev]]]
Log(st, e) == [st EXCEPT !.log = Append(@, e)]

\* A walk result: the state reached and the value returned.
Ret(st, err) == [st |-> st, err |-> err]

\* The walk context, struct pipeline_data, together with the outcomes of the
\* type-specific hooks met during the operation (env).
Data(start, cmd, p, bytes, origin, env) ==
    [start |-> start, cmd |-> cmd, p |-> p, bytes |-> bytes, origin |-> origin, env |-> env]

comp_is_single_pipeline(current, previous) ==
    topo.pipeline_id[current] = topo.pipeline_id[previous]

comp_is_active(st, current) == st.cstate[current] = COMP_STATE_ACTIVE

comp_get_endpoint_type(dev) ==
    CASE topo.type[dev] = SOF_COMP_HOST -> COMP_ENDPOINT_HOST
      [] topo.type[dev] = SOF_COMP_DAI -> COMP_ENDPOINT_DAI
      [] OTHER -> COMP_ENDPOINT_NODE

\* pipeline_is_same_sched_comp(ppl1, ppl2), pipeline.h
pipeline_is_same_sched_comp(ppl1, ppl2) ==
    topo.sched_comp[ppl1] = topo.sched_comp[ppl2]

comp_buffer_list(current, dir) ==
    IF dir = PPL_DIR_DOWNSTREAM THEN topo.bsink_list[current]
    ELSE topo.bsource_list[current]

\* buffer_get_comp(buffer, dir), buffer.h
buffer_get_comp(buffer, dir) ==
    IF dir = PPL_DIR_DOWNSTREAM THEN topo.buf_sink[buffer]
    ELSE topo.buf_source[buffer]

\* ipc_get_ppl_comp(ipc, pipeline_id, dir): the first component of the
\* pipeline with no buffer in direction dir; when there is none, the first
\* whose first buffer in direction dir leads into another pipeline.
ipc_get_ppl_comp(pipeline_id, dir) ==
    LET ends == {c \in topo.comps : /\ topo.pipeline_id[c] = pipeline_id
                                    /\ comp_buffer_list(c, dir) = <<>>}
        joins == {c \in topo.comps :
                     /\ topo.pipeline_id[c] = pipeline_id
                     /\ comp_buffer_list(c, dir) # <<>>
                     /\ topo.pipeline_id[buffer_get_comp(comp_buffer_list(c, dir)[1], dir)]
                            # pipeline_id}
    IN IF ends # {} THEN CHOOSE c \in ends : \A d \in ends : c <= d
       ELSE IF joins # {} THEN CHOOSE c \in joins : \A d \in joins : c <= d
       ELSE NULL

(* ------- the type-specific hooks, after eq_fir.c ------- *)

\* drv->ops.trigger: eq_fir_trigger returns comp_set_state(dev, cmd).
comp_trigger(st, dev, cmd) ==
    LET r == comp_set_state(st.cstate[dev], cmd)
    IN Ret(Log([st EXCEPT !.cstate[dev] = r.state],
               Ev("trigger", dev, cmd, r.ret)), r.ret)

\* drv->ops.prepare: eq_fir_prepare; the set-up after the state change fails
\* for the components of env.prepare_fail.
comp_prepare(st, dev, env) ==
    LET r == comp_set_state(st.cstate[dev], COMP_TRIGGER_PREPARE)
    IN IF r.ret < 0 THEN Ret(Log(st, Ev("prepare", dev, 0, r.ret)), r.ret)
       ELSE IF r.ret = COMP_STATUS_STATE_ALREADY_SET
       THEN Ret(Log(st, Ev("prepare", dev, 0, PPL_STATUS_PATH_STOP)), PPL_STATUS_PATH_STOP)
       ELSE IF dev \in env.prepare_fail
       THEN Ret(Log([st EXCEPT !.cstate[dev] =
                        comp_set_state(r.state, COMP_TRIGGER_RESET).state],
                    Ev("prepare", dev, 0, -ENOMEM)), -ENOMEM)
       ELSE Ret(Log([st EXCEPT !.cstate[dev] = r.state], Ev("prepare", dev, 0, 0)), 0)

\* drv->ops.reset: eq_fir_reset and src_reset return 0, test_keyword_reset
\* returns the value of comp_set_state(dev, COMP_TRIGGER_RESET).
comp_reset(st, dev) ==
    LET r == comp_set_state(st.cstate[dev], COMP_TRIGGER_RESET)
        ret == IF topo.type[dev] = SOF_COMP_KEYWORD_DETECT THEN r.ret ELSE 0
    IN Ret(Log([st EXCEPT !.cstate[dev] = r.state], Ev("reset", dev, 0, ret)), ret)

(* ------- graph walks ------- *)

RECURSIVE pipeline_comp_complete(_, _, _, _)
RECURSIVE for_each_complete(_, _, _, _, _, _)
RECURSIVE for_each_complete_next(_, _, _, _, _)
RECURSIVE pipeline_comp_params(_, _, _, _)
RECURSIVE for_each_params(_, _, _, _, _, _)
RECURSIVE for_each_params_next(_, _, _, _, _)
RECURSIVE pipeline_comp_prepare(_, _, _, _)
RECURSIVE for_each_prepare(_, _, _, _, _, _)
RECURSIVE for_each_prepare_next(_, _, _, _, _)
RECURSIVE pipeline_comp_trigger(_, _, _, _)
RECURSIVE for_each_trigger(_, _, _, _, _, _)
RECURSIVE for_each_trigger_next(_, _, _, _, _)
RECURSIVE pipeline_comp_reset(_, _, _, _)
RECURSIVE for_each_reset(_, _, _, _, _, _)
RECURSIVE for_each_reset_next(_, _, _, _, _)
RECURSIVE pipeline_comp_copy(_, _, _, _)
RECURSIVE for_each_copy(_, _, _, _, _, _)
RECURSIVE for_each_copy_next(_, _, _, _, _)
RECURSIVE pipeline_comp_xrun(_, _, _, _)
RECURSIVE pipeline_comp_free(_, _, _, _)
RECURSIVE for_each_free(_, _, _, _, _, _)
RECURSIVE for_each_free_next(_, _, _, _, _)
RECURSIVE for_each_xrun(_, _, _, _, _, _)
RECURSIVE for_each_xrun_next(_, _, _, _, _)

\* buffer_reset_pos(buffer, data), buffer.h: rewinds the buffer.
buffer_reset_pos(st, buffer) == Log(st, Ev("buffer_reset_pos", buffer, 0, 0))

\* pipeline_for_each_comp(current, func, data, buff_func, buff_data, dir): the
\* list the walk goes through. The loop over it is for_each_<func> below, one
\* per walk function: from item i on, err being the last value returned;
\* for_each_<func>_next is the loop after func returned r for item i.
pipeline_for_each_comp(current, dir) == comp_buffer_list(current, dir)

for_each_complete(st, list, i, data, dir, err) ==
    IF i > Len(list) THEN Ret(st, err)
    ELSE IF buffer_get_comp(list[i], dir) = NULL
    THEN for_each_complete(st, list, i + 1, data, dir, err)
    ELSE for_each_complete_next(pipeline_comp_complete(st, buffer_get_comp(list[i], dir), data, dir),
                           list, i, data, dir)

for_each_complete_next(r, list, i, data, dir) ==
    IF r.err < 0 THEN r ELSE for_each_complete(r.st, list, i + 1, data, dir, r.err)

for_each_params(st, list, i, data, dir, err) ==
    IF i > Len(list) THEN Ret(st, err)
    ELSE IF buffer_get_comp(list[i], dir) = NULL
    THEN for_each_params(st, list, i + 1, data, dir, err)
    ELSE for_each_params_next(pipeline_comp_params(st, buffer_get_comp(list[i], dir), data, dir),
                           list, i, data, dir)

for_each_params_next(r, list, i, data, dir) ==
    IF r.err < 0 THEN r ELSE for_each_params(r.st, list, i + 1, data, dir, r.err)

for_each_prepare(st, list, i, data, dir, err) ==
    IF i > Len(list) THEN Ret(st, err)
    ELSE IF buffer_get_comp(list[i], dir) = NULL
    THEN for_each_prepare(buffer_reset_pos(st, list[i]), list, i + 1, data, dir, err)
    ELSE for_each_prepare_next(pipeline_comp_prepare(buffer_reset_pos(st, list[i]), buffer_get_comp(list[i], dir), data, dir),
                           list, i, data, dir)

for_each_prepare_next_GoesOn(r, list, i, data, dir) ==
    for_each_prepare(r.st, list, i + 1, data, dir, r.err)

for_each_prepare_next(r, list, i, data, dir) ==
    IF r.err < 0 THEN r ELSE for_each_prepare(r.st, list, i + 1, data, dir, r.err)

for_each_trigger(st, list, i, data, dir, err) ==
    IF i > Len(list) THEN Ret(st, err)
    ELSE IF buffer_get_comp(list[i], dir) = NULL
    THEN for_each_trigger(st, list, i + 1, data, dir, err)
    ELSE for_each_trigger_next(pipeline_comp_trigger(st, buffer_get_comp(list[i], dir), data, dir),
                           list, i, data, dir)

for_each_trigger_next(r, list, i, data, dir) ==
    IF r.err < 0 THEN r ELSE for_each_trigger(r.st, list, i + 1, data, dir, r.err)

for_each_reset(st, list, i, data, dir, err) ==
    IF i > Len(list) THEN Ret(st, err)
    ELSE IF buffer_get_comp(list[i], dir) = NULL
    THEN for_each_reset(st, list, i + 1, data, dir, err)
    ELSE for_each_reset_next(pipeline_comp_reset(st, buffer_get_comp(list[i], dir), data, dir),
                           list, i, data, dir)

for_each_reset_next(r, list, i, data, dir) ==
    IF r.err < 0 THEN r ELSE for_each_reset(r.st, list, i + 1, data, dir, r.err)

for_each_copy(st, list, i, data, dir, err) ==
    IF i > Len(list) THEN Ret(st, err)
    ELSE IF buffer_get_comp(list[i], dir) = NULL
    THEN for_each_copy(st, list, i + 1, data, dir, err)
    ELSE for_each_copy_next(pipeline_comp_copy(st, buffer_get_comp(list[i], dir), data, dir),
                           list, i, data, dir)

for_each_copy_next(r, list, i, data, dir) ==
    IF r.err < 0 THEN r ELSE for_each_copy(r.st, list, i + 1, data, dir, r.err)

for_each_xrun(st, list, i, data, dir, err) ==
    IF i > Len(list) THEN Ret(st, err)
    ELSE IF buffer_get_comp(list[i], dir) = NULL
    THEN for_each_xrun(st, list, i + 1, data, dir, err)
    ELSE for_each_xrun_next(pipeline_comp_xrun(st, buffer_get_comp(list[i], dir), data, dir),
                           list, i, data, dir)

for_each_xrun_next(r, list, i, data, dir) ==
    IF r.err < 0 THEN r ELSE for_each_xrun(r.st, list, i + 1, data, dir, r.err)

pipeline_comp_complete_AnyPipeline(st, current, data, dir) ==
    Ret(for_each_complete([st EXCEPT !.cppl[current] = data.p],
                          pipeline_for_each_comp(current, dir), 1, data, dir, 0).st, 0)

pipeline_comp_complete(st, current, data, dir) ==
    IF ~comp_is_single_pipeline(current, data.start) THEN Ret(st, 0)
    ELSE Ret(for_each_complete([st EXCEPT !.cppl[current] = data.p],
                               pipeline_for_each_comp(current, dir), 1, data, dir, 0).st, 0)

pipeline_complete(st, p, source, sink) ==
    IF st.pstatus[p] # COMP_STATE_INIT THEN Ret(st, -EINVAL)
    ELSE Ret([pipeline_comp_complete(st, source, Data(source, 0, p, 0, 0, 0),
                                     PPL_DIR_DOWNSTREAM).st
                 EXCEPT !.source_comp[p] = source, !.sink_comp[p] = sink,
                        !.pstatus[p] = COMP_STATE_READY], 0)

for_each_free(st, list, i, data, dir, err) ==
    IF i > Len(list) THEN Ret(st, err)
    ELSE IF buffer_get_comp(list[i], dir) = NULL
    THEN for_each_free(st, list, i + 1, data, dir, err)
    ELSE for_each_free_next(pipeline_comp_free(st, buffer_get_comp(list[i], dir), data, dir),
                           list, i, data, dir)

for_each_free_next(r, list, i, data, dir) ==
    IF r.err < 0 THEN r ELSE for_each_free(r.st, list, i + 1, data, dir, r.err)

\* pipeline_comp_free: the back-reference is cleared, the walk goes on and
\* the component is taken off its buffer list (list_item_del).
pipeline_comp_free(st, current, data, dir) ==
    IF ~comp_is_single_pipeline(current, data.start) THEN Ret(st, 0)
    ELSE Ret(Log(for_each_free([st EXCEPT !.cppl[current] = NULL],
                               pipeline_for_each_comp(current, dir), 1, data, dir, 0).st,
                 Ev("list_item_del", current, dir, 0)), 0)

\* pipeline_free from "remove from any scheduling" on.
pipeline_free_task(st, p) ==
    Log(IF st.pipe_task[p]
        THEN Log([st EXCEPT !.pipe_task[p] = FALSE, !.sched_on[p] = FALSE],
                 Ev("schedule_task_free", p, 0, 0))
        ELSE st,
        Ev("rfree", p, 0, 0))

pipeline_free(st, p) ==
    IF st.source_comp[p] # NULL
    THEN IF st.cstate[st.source_comp[p]] > COMP_STATE_READY THEN Ret(st, -EBUSY)
         ELSE Ret(pipeline_free_task(
                      pipeline_comp_free(st, st.source_comp[p],
                                         Data(st.source_comp[p], 0, p, 0, 0, 0),
                                         PPL_DIR_DOWNSTREAM).st, p), 0)
    ELSE Ret(pipeline_free_task(st, p), 0)

\* The early return of pipeline_comp_params, _prepare and _reset for a
\* component of a pipeline connected in the improper direction.
improper_direction_PlaybackOnly(st, current, stream_direction) ==
    /\ stream_direction = SOF_IPC_STREAM_PLAYBACK
    /\ comp_get_endpoint_type(st.sink_comp[st.cppl[current]])
          \in {COMP_ENDPOINT_HOST, COMP_ENDPOINT_NODE}

improper_direction(st, current, stream_direction) ==
    LET end_type == comp_get_endpoint_type(st.sink_comp[st.cppl[current]])
    IN \/ /\ stream_direction = SOF_IPC_STREAM_PLAYBACK
          /\ end_type \in {COMP_ENDPOINT_HOST, COMP_ENDPOINT_NODE}
       \/ /\ stream_direction = SOF_IPC_STREAM_CAPTURE
          /\ end_type \in {COMP_ENDPOINT_DAI, COMP_ENDPOINT_NODE}

pipeline_set_params(st, comp, direction) ==
    Log([st EXCEPT !.cdir[comp] = direction], Ev("params", comp, direction, 0))

\* data.cmd carries params->params.direction; comp_params succeeds (eq_fir
\* has no failing path before prepare).
pipeline_comp_params_SetsRunning(st, current, data, dir) ==
    IF /\ ~comp_is_single_pipeline(current, data.start)
       /\ improper_direction(st, current, data.cmd)
    THEN Ret(st, 0)
    ELSE for_each_params(pipeline_set_params(st, current, data.cmd),
                         pipeline_for_each_comp(current, dir), 1, data, dir, 0)

pipeline_comp_params(st, current, data, dir) ==
    IF /\ ~comp_is_single_pipeline(current, data.start)
       /\ improper_direction(st, current, data.cmd)
    THEN Ret(st, 0)
    ELSE IF st.cstate[current] = COMP_STATE_ACTIVE THEN Ret(st, 0)
    ELSE for_each_params(pipeline_set_params(st, current, data.cmd),
                         pipeline_for_each_comp(current, dir), 1, data, dir, 0)

pipeline_params(st, p, host, direction) ==
    pipeline_comp_params(st, host, Data(host, direction, p, 0, 0, 0), direction)

\* rzalloc and schedule_task_init_ll succeed.
pipeline_comp_task_init(st, p) ==
    IF ~st.pipe_task[p] THEN Ret([st EXCEPT !.pipe_task[p] = TRUE], 0) ELSE Ret(st, 0)

\* pipeline_comp_prepare after comp_prepare returned c.
pipeline_comp_prepare_walk(c, current, data, dir) ==
    IF c.err < 0 \/ c.err = PPL_STATUS_PATH_STOP THEN c
    ELSE for_each_prepare(c.st, pipeline_for_each_comp(current, dir), 1, data, dir, 0)

\* pipeline_comp_prepare after pipeline_comp_task_init returned t.
pipeline_comp_prepare_comp(t, current, data, dir) ==
    IF t.err < 0 THEN t
    ELSE pipeline_comp_prepare_walk(comp_prepare(t.st, current, data.env), current, data, dir)

pipeline_comp_prepare(st, current, data, dir) ==
    IF /\ ~comp_is_single_pipeline(current, data.start)
       /\ improper_direction(st, current, dir)
    THEN Ret(st, 0)
    ELSE pipeline_comp_prepare_comp(pipeline_comp_task_init(st, st.cppl[current]),
                                    current, data, dir)

\* pipeline_prepare after the walk returned r.
pipeline_prepare_status(r, p) ==
    IF r.err < 0 THEN r
    ELSE Ret([r.st EXCEPT !.pstatus[p] = COMP_STATE_PREPARE], r.err)

pipeline_prepare(st, p, dev, env) ==
    pipeline_prepare_status(
        pipeline_comp_prepare(st, dev, Data(dev, 0, p, 0, 0, env), st.cdir[dev]), p)

pipeline_schedule_copy(st, p) ==
    Log([st EXCEPT !.sched_on[p] = TRUE], Ev("schedule_task", p, 0, 0))

pipeline_schedule_cancel(st, p) ==
    Log([st EXCEPT !.sched_on[p] = FALSE], Ev("schedule_task_cancel", p, 0, 0))

pipeline_comp_trigger_sched_comp_StartKeepsStatus(st, p, comp, cmd) ==
    IF /\ topo.sched_comp[p] # comp
       /\ (p = st.cppl[topo.sched_comp[p]] \/ st.sink_comp[p] # comp)
    THEN st
    ELSE CASE cmd \in {COMP_TRIGGER_PAUSE, COMP_TRIGGER_STOP, COMP_TRIGGER_XRUN} ->
                [pipeline_schedule_cancel(st, p) EXCEPT !.pstatus[p] = COMP_STATE_PAUSED]
           [] cmd \in {COMP_TRIGGER_RELEASE, COMP_TRIGGER_START} ->
                [pipeline_schedule_copy(st, p) EXCEPT !.xrun_bytes[p] = 0]
           [] OTHER -> st

pipeline_comp_trigger_sched_comp_AnyComponent(st, p, comp, cmd) ==
    CASE cmd \in {COMP_TRIGGER_PAUSE, COMP_TRIGGER_STOP, COMP_TRIGGER_XRUN} ->
            [pipeline_schedule_cancel(st, p) EXCEPT !.pstatus[p] = COMP_STATE_PAUSED]
      [] cmd \in {COMP_TRIGGER_RELEASE, COMP_TRIGGER_START} ->
            [pipeline_schedule_copy(st, p) EXCEPT !.xrun_bytes[p] = 0,
                                                  !.pstatus[p] = COMP_STATE_ACTIVE]
      [] OTHER -> st

pipeline_comp_trigger_sched_comp(st, p, comp, cmd) ==
    IF /\ topo.sched_comp[p] # comp
       /\ (p = st.cppl[topo.sched_comp[p]] \/ st.sink_comp[p] # comp)
    THEN st
    ELSE CASE cmd \in {COMP_TRIGGER_PAUSE, COMP_TRIGGER_STOP, COMP_TRIGGER_XRUN} ->
                [pipeline_schedule_cancel(st, p) EXCEPT !.pstatus[p] = COMP_STATE_PAUSED]
           [] cmd \in {COMP_TRIGGER_RELEASE, COMP_TRIGGER_START} ->
                [pipeline_schedule_copy(st, p) EXCEPT !.xrun_bytes[p] = 0,
                                                      !.pstatus[p] = COMP_STATE_ACTIVE]
           [] OTHER -> st

\* pipeline_comp_trigger that goes on when the state was already set.
pipeline_comp_trigger_walk_IgnoresAlreadySet(t, current, data, dir) ==
    IF t.err < 0 THEN t
    ELSE for_each_trigger(
             pipeline_comp_trigger_sched_comp(t.st, t.st.cppl[current], current, data.cmd),
             pipeline_for_each_comp(current, dir), 1, data, dir, 0)

\* pipeline_comp_trigger after comp_trigger returned t.
pipeline_comp_trigger_walk(t, current, data, dir) ==
    IF t.err < 0 \/ t.err = PPL_STATUS_PATH_STOP THEN t
    ELSE for_each_trigger(
             pipeline_comp_trigger_sched_comp(t.st, t.st.cppl[current], current, data.cmd),
             pipeline_for_each_comp(current, dir), 1, data, dir, 0)

pipeline_comp_trigger_AnyPipeline(st, current, data, dir) ==
    pipeline_comp_trigger_walk(comp_trigger(st, current, data.cmd), current, data, dir)

pipeline_comp_trigger(st, current, data, dir) ==
    LET is_single_ppl == comp_is_single_pipeline(current, data.start)
        is_same_sched == pipeline_is_same_sched_comp(st.cppl[current], st.cppl[data.start])
    IN IF ~is_single_ppl /\ ~is_same_sched THEN Ret(st, 0)
       ELSE pipeline_comp_trigger_walk(comp_trigger(st, current, data.cmd),
                                       current, data, dir)

\* pipeline_xrun_handle_trigger, case COMP_TRIGGER_START, after
\* pipeline_prepare returned r.
pipeline_xrun_handle_start(r, p) ==
    IF r.err < 0 THEN r ELSE Ret([r.st EXCEPT !.xrun_bytes[p] = 0], r.err)

pipeline_xrun_handle_trigger_StopGoesOn(st, p, cmd, env) ==
    IF st.xrun_bytes[p] = 0 \/ st.pstatus[p] # COMP_STATE_PAUSED THEN Ret(st, 0)
    ELSE CASE cmd = COMP_TRIGGER_START ->
                pipeline_xrun_handle_start(
                    pipeline_prepare(st, p, st.source_comp[p], env), p)
           [] OTHER -> Ret(st, 0)

pipeline_xrun_handle_trigger(st, p, cmd, env) ==
    IF st.xrun_bytes[p] = 0 \/ st.pstatus[p] # COMP_STATE_PAUSED THEN Ret(st, 0)
    ELSE CASE cmd = COMP_TRIGGER_START ->
                pipeline_xrun_handle_start(
                    pipeline_prepare(st, p, st.source_comp[p], env), p)
           [] cmd = COMP_TRIGGER_STOP -> Ret(st, PPL_STATUS_PATH_STOP)
           [] OTHER -> Ret(st, 0)

\* pipeline_trigger after pipeline_xrun_handle_trigger returned h.
pipeline_trigger_walk(h, p, host, cmd, env) ==
    IF h.err < 0 THEN h
    ELSE IF h.err = PPL_STATUS_PATH_STOP THEN Ret(h.st, 0)
    ELSE pipeline_comp_trigger(h.st, host, Data(host, cmd, p, 0, 0, env), h.st.cdir[host])

pipeline_trigger(st, p, host, cmd, env) ==
    IF st.xrun_bytes[p] # 0
    THEN pipeline_trigger_walk(pipeline_xrun_handle_trigger(st, p, cmd, env),
                               p, host, cmd, env)
    ELSE pipeline_comp_trigger(st, host, Data(host, cmd, p, 0, 0, env), st.cdir[host])

\* pipeline_comp_reset after comp_reset returned c.
pipeline_comp_reset_walk(c, current, data, dir) ==
    IF c.err < 0 \/ c.err = PPL_STATUS_PATH_STOP THEN c
    ELSE for_each_reset(c.st, pipeline_for_each_comp(current, dir), 1, data, dir, 0)

pipeline_comp_reset(st, current, data, dir) ==
    IF /\ ~comp_is_single_pipeline(current, st.source_comp[data.p])
       /\ improper_direction(st, current, dir)
    THEN Ret(st, 0)
    ELSE pipeline_comp_reset_walk(comp_reset(st, current), current, data, dir)

\* pipeline_reset that also takes the pipeline back to READY and drops the XRUN.
pipeline_reset_ResetsPipeline(st, p, host) ==
    LET r == pipeline_comp_reset(st, host, Data(host, 0, p, 0, 0, 0), st.cdir[host])
    IN Ret([r.st EXCEPT !.pstatus[p] = COMP_STATE_READY, !.xrun_bytes[p] = 0], r.err)

pipeline_reset(st, p, host) ==
    pipeline_comp_reset(st, host, Data(host, 0, p, 0, 0, 0), st.cdir[host])

\* ipc_stream_send_xrun(cdev, posn): one message queued to the host for the
\* stream of cdev, carrying posn.xrun_size and posn.xrun_comp_id.
ipc_stream_send_xrun(st, cdev, posn) ==
    Log(st, Ev("ipc_stream_send_xrun", cdev, posn.bytes, posn.origin))

pipeline_comp_xrun(st, current, data, dir) ==
    for_each_xrun(IF topo.type[current] = SOF_COMP_HOST
                  THEN ipc_stream_send_xrun(st, current, data)
                  ELSE st,
                  pipeline_for_each_comp(current, dir), 1, data, dir, 0)

\* pipeline_xrun after the XRUN trigger left state st.
pipeline_xrun_notify(st, p, dev, bytes, env) ==
    pipeline_comp_xrun([st EXCEPT !.xrun_bytes[p] = bytes], dev,
                       Data(dev, 0, p, bytes, dev, env), st.cdir[dev]).st

pipeline_xrun_FloodsHost(st, p, dev, bytes, env) ==
    IF st.cstate[dev] # COMP_STATE_ACTIVE THEN st
    ELSE pipeline_xrun_notify(
             pipeline_trigger(st, p, st.source_comp[p], COMP_TRIGGER_XRUN, env).st,
             p, dev, bytes, env)

pipeline_xrun(st, p, dev, bytes, env) ==
    IF st.xrun_bytes[p] # 0 THEN st
    ELSE IF st.cstate[dev] # COMP_STATE_ACTIVE THEN st
    ELSE pipeline_xrun_notify(
             pipeline_trigger(st, p, st.source_comp[p], COMP_TRIGGER_XRUN, env).st,
             p, dev, bytes, env)

\* The int32_t the byte counts convert to; the counts used are below 2^31,
\* where the conversion keeps the value.
comp_underrun(st, dev, avail, copy_bytes, env) ==
    pipeline_xrun(Log(st, Ev("comp_underrun", dev, copy_bytes, avail)),
                  st.cppl[dev], dev, avail - copy_bytes, env)

comp_overrun(st, dev, free, copy_bytes, env) ==
    pipeline_xrun(Log(st, Ev("comp_overrun", dev, copy_bytes, free)),
                  st.cppl[dev], dev, copy_bytes - free, env)

\* What a component's signal carries: the kind, the requested byte count and
\* the count the buffer had (available data or free space).
comp_xrun(st, dev, x, env) ==
    IF x.kind = "underrun" THEN comp_underrun(st, dev, x.have, x.req, env)
    ELSE comp_overrun(st, dev, x.have, x.req, env)

\* drv->ops.copy: the outcome env.copy[dev] of this period's copy, after
\* eq_fir_copy and src_copy: data moved, nothing to move (path stop), a
\* failure, or an XRUN signalled and then reported as a failure.
comp_copy(st, dev, env) ==
    CASE env.copy[dev] = "ok" -> Ret(Log(st, CopyEv(st, dev, 0)), 0)
      [] env.copy[dev] = "stop" ->
            Ret(Log(st, CopyEv(st, dev, PPL_STATUS_PATH_STOP)), PPL_STATUS_PATH_STOP)
      [] env.copy[dev] = "err" -> Ret(Log(st, CopyEv(st, dev, -EINVAL)), -EINVAL)
      [] env.copy[dev] = "xrun" ->
            Ret(comp_xrun(Log(st, CopyEv(st, dev, -EINVAL)), dev, env.xrun, env), -EINVAL)

\* pipeline_comp_copy after the walk returned w.
pipeline_comp_copy_up(w, current, data, dir) ==
    IF w.err < 0 \/ w.err = PPL_STATUS_PATH_STOP THEN w
    ELSE IF dir = PPL_DIR_UPSTREAM THEN comp_copy(w.st, current, data.env)
    ELSE w

\* pipeline_comp_copy, downstream, after comp_copy returned c.
pipeline_comp_copy_down(c, current, data, dir) ==
    IF c.err < 0 \/ c.err = PPL_STATUS_PATH_STOP THEN c
    ELSE pipeline_comp_copy_up(
             for_each_copy(c.st, pipeline_for_each_comp(current, dir), 1, data, dir, 0),
             current, data, dir)

pipeline_comp_copy_AnyPipeline(st, current, data, dir) ==
    IF ~comp_is_active(st, current) THEN Ret(st, 0)
    ELSE pipeline_comp_copy_up(
             for_each_copy(st, pipeline_for_each_comp(current, dir), 1, data, dir, 0),
             current, data, dir)

pipeline_comp_copy_CopyFirst(st, current, data, dir) ==
    IF ~comp_is_single_pipeline(current, data.start) THEN Ret(st, 0)
    ELSE IF ~comp_is_active(st, current) THEN Ret(st, 0)
    ELSE pipeline_comp_copy_down(comp_copy(st, current, data.env), current, data, dir)

pipeline_comp_copy(st, current, data, dir) ==
    IF ~comp_is_single_pipeline(current, data.start) THEN Ret(st, 0)
    ELSE IF ~comp_is_active(st, current) THEN Ret(st, 0)
    ELSE IF dir = PPL_DIR_DOWNSTREAM
    THEN pipeline_comp_copy_down(comp_copy(st, current, data.env), current, data, dir)
    ELSE pipeline_comp_copy_up(
             for_each_copy(st, pipeline_for_each_comp(current, dir), 1, data, dir, 0),
             current, data, dir)

pipeline_copy(st, p, env) ==
    IF st.cdir[st.source_comp[p]] = SOF_IPC_STREAM_PLAYBACK
    THEN pipeline_comp_copy(st, st.sink_comp[p],
                            Data(st.sink_comp[p], 0, p, 0, 0, env), PPL_DIR_UPSTREAM)
    ELSE pipeline_comp_copy(st, st.source_comp[p],
                            Data(st.source_comp[p], 0, p, 0, 0, env), PPL_DIR_DOWNSTREAM)

\* pipeline_xrun_recover after pipeline_trigger returned t; a failure is traced.
pipeline_xrun_recover_result(t, p) ==
    IF t.err < 0 THEN Ret(Log(t.st, Ev("pipeline_xrun_recover_error", p, 0, t.err)), t.err)
    ELSE Ret(t.st, 0)

\* pipeline_xrun_recover after pipeline_prepare returned r; a failure is traced.
pipeline_xrun_recover_start(r, p, env) ==
    IF r.err < 0 THEN Ret(Log(r.st, Ev("pipeline_xrun_recover_error", p, 0, r.err)), r.err)
    ELSE pipeline_xrun_recover_result(
             pipeline_trigger([r.st EXCEPT !.xrun_bytes[p] = 0], p, r.st.source_comp[p],
                              COMP_TRIGGER_START, env), p)

pipeline_xrun_recover(st, p, env) ==
    pipeline_xrun_recover_start(
        pipeline_prepare(Log(st, Ev("pipeline_xrun_recover", p, 0, 0)), p,
                         st.source_comp[p], env), p, env)

pipeline_task_result_AlwaysReschedule(r) == Ret(r.st, SOF_TASK_STATE_RESCHEDULE)

\* pipeline_task after the recovery that followed a failed copy returned r.
\* The value returned in .err is the task state.
pipeline_task_result(r) ==
    IF r.err < 0 THEN Ret(r.st, SOF_TASK_STATE_COMPLETED)
    ELSE Ret(r.st, SOF_TASK_STATE_RESCHEDULE)

\* pipeline_task after pipeline_copy returned c.
pipeline_task_copied(c, p, env) ==
    IF c.err < 0 THEN pipeline_task_result(pipeline_xrun_recover(c.st, p, env))
    ELSE Ret(c.st, SOF_TASK_STATE_RESCHEDULE)

\* pipeline_task after the recovery at its start returned r.
pipeline_task_recovered(r, p, env) ==
    IF r.err < 0 THEN Ret(r.st, SOF_TASK_STATE_COMPLETED)
    ELSE pipeline_task_copied(pipeline_copy(r.st, p, env), p, env)

pipeline_task(st, p, env) ==
    IF st.xrun_bytes[p] # 0
    THEN pipeline_task_recovered(pipeline_xrun_recover(st, p, env), p, env)
    ELSE pipeline_task_copied(pipeline_copy(st, p, env), p, env)

(* ------- the operations on the graph ------- *)

\* The recovery attempts the history counts up to.
MaxRecoveries == 4

\* The components whose prepare set-up fails during one operation.
PrepareFails == {{}} \cup {{c} : c \in {HostId, VolumeId, DaiId}}

\* The outcome of each component's copy during one period.
CopyOutcomes == [{HostId, VolumeId, DaiId} -> {"ok", "stop", "err", "xrun"}]

\* The XRUN signals a component raises.
XrunSignals ==
    {[kind |-> "underrun", req |-> 1024, have |-> 512],
     [kind |-> "overrun", req |-> 1024, have |-> 512]}

Env(prepare_fail, copy, xrun) == [prepare_fail |-> prepare_fail, copy |-> copy, xrun |-> xrun]

NoXrun == [kind |-> "none", req |-> 0, have |-> 0]
NoCopy == [c \in {HostId, VolumeId, DaiId} |-> "ok"]

\* What an operation found when it was called.
Pre ==
    [cstate |-> cstate, pstatus |-> pstatus, xrun_bytes |-> xrun_bytes,
     sched_on |-> sched_on, cdir |-> cdir]

PplCall(op, p, dev, cmd, bytes, ret) ==
    [op |-> op, p |-> p, dev |-> dev, cmd |-> cmd, bytes |-> bytes, ret |-> ret,
     pre |-> Pre]

NoPplCall ==
    [op |-> "none", p |-> 0, dev |-> 0, cmd |-> 0, bytes |-> 0, ret |-> 0,
     pre |-> [cstate |-> <<>>, pstatus |-> <<>>, xrun_bytes |-> <<>>,
              sched_on |-> <<>>, cdir |-> <<>>]]

\* The state the walks leave becomes the state of the graph.
Commit(st) ==
    /\ cstate' = st.cstate
    /\ cdir' = st.cdir
    /\ cppl' = st.cppl
    /\ pstatus' = st.pstatus
    /\ xrun_bytes' = st.xrun_bytes
    /\ source_comp' = st.source_comp
    /\ sink_comp' = st.sink_comp
    /\ pipe_task' = st.pipe_task
    /\ sched_on' = st.sched_on
    /\ plog' = st.log
    /\ UNCHANGED topo

\* One value for every pipeline of the topology.
PerPipeline(v) == IF Cardinality(topo.pipes) = 1 THEN <<v>> ELSE <<v, v>>

\* The host has loaded the whole topology: every pipeline is complete.
topology_loaded == \A c \in topo.comps : cppl[c] # NULL

\* After comp_new, buffer_new, pipeline_new and pipeline_connect for every
\* object of the topology: components READY, the pipeline in INIT.
PplInitOn(topologies) ==
    /\ topo \in topologies
    /\ cstate = <<COMP_STATE_READY, COMP_STATE_READY, COMP_STATE_READY>>
    /\ cdir = <<SOF_IPC_STREAM_PLAYBACK, SOF_IPC_STREAM_PLAYBACK, SOF_IPC_STREAM_PLAYBACK>>
    /\ cppl = <<NULL, NULL, NULL>>
    /\ pstatus = PerPipeline(COMP_STATE_INIT)
    /\ xrun_bytes = PerPipeline(0)
    /\ source_comp = PerPipeline(NULL)
    /\ sink_comp = PerPipeline(NULL)
    /\ pipe_task = PerPipeline(FALSE)
    /\ sched_on = PerPipeline(FALSE)
    /\ plog = <<>>
    /\ pcall = NoPplCall
    /\ recoveries = PerPipeline(0)

PplInit == PplInitOn(Topologies)

\* The recovery attempts in a log.
RecoverCalls(log) == Cardinality({i \in 1..Len(log) : log[i].ev = "pipeline_xrun_recover"})

\* The history of recovery attempts after an operation: a host command or a
\* task run without an attempt starts it again, a task run adds its attempts.
Recovered(op, p, log) ==
    CASE op = "task" /\ RecoverCalls(log) > 0 ->
            [recoveries EXCEPT ![p] = IF @ + RecoverCalls(log) > MaxRecoveries
                                      THEN MaxRecoveries ELSE @ + RecoverCalls(log)]
      [] op = "xrun" -> recoveries
      [] OTHER -> [recoveries EXCEPT ![p] = 0]

\* The operation returned r: its effects and its record.
Done(r, op, p, dev, cmd, bytes) ==
    /\ Commit(r.st)
    /\ pcall' = PplCall(op, p, dev, cmd, bytes, r.err)
    /\ recoveries' = Recovered(op, p, r.st.log)

ipc_pipeline_complete(p) ==
    /\ ipc_get_ppl_comp(p, PPL_DIR_UPSTREAM) # NULL
    /\ ipc_get_ppl_comp(p, PPL_DIR_DOWNSTREAM) # NULL
    /\ \E r \in {pipeline_complete(World, p, ipc_get_ppl_comp(p, PPL_DIR_UPSTREAM),
                                   ipc_get_ppl_comp(p, PPL_DIR_DOWNSTREAM))} :
          Done(r, "complete", p, ipc_get_ppl_comp(p, PPL_DIR_UPSTREAM), 0, 0)

\* ipc_stream_pcm_params from label error on: err is returned after the reset.
pcm_params_error(r, p, host) == Ret(pipeline_reset(r.st, p, host).st, r.err)

\* ipc_stream_pcm_params after pipeline_prepare returned r.
pcm_params_prepared(r, p, host) ==
    IF r.err < 0 THEN pcm_params_error(r, p, host) ELSE Ret(r.st, 1)

\* ipc_stream_pcm_params after pipeline_params returned r.
pcm_params_set(r, p, host, env) ==
    IF r.err < 0 THEN pcm_params_error(r, p, host)
    ELSE pcm_params_prepared(pipeline_prepare(r.st, p, host, env), p, host)

\* The host sends the direction of the stream it opened.
ipc_stream_pcm_params(p, prepare_fail) ==
    /\ topo.host[p] # NULL
    /\ topology_loaded
    /\ \E r \in {pcm_params_set(pipeline_params(World, cppl[topo.host[p]], topo.host[p],
                                                topo.direction[p]),
                                cppl[topo.host[p]], topo.host[p],
                                Env(prepare_fail, NoCopy, NoXrun))} :
          Done(r, "pcm_params", p, topo.host[p], 0, 0)

ipc_stream_pcm_free(p) ==
    /\ topo.host[p] # NULL
    /\ topology_loaded
    /\ \E r \in {pipeline_reset(World, cppl[topo.host[p]], topo.host[p])} :
          Done(r, "pcm_free", p, topo.host[p], 0, 0)

\* The host triggers streams of a loaded topology only.
ipc_stream_trigger(p, cmd, prepare_fail) ==
    /\ topo.host[p] # NULL
    /\ topology_loaded
    /\ \E r \in {pipeline_trigger(World, cppl[topo.host[p]], topo.host[p], cmd,
                                  Env(prepare_fail, NoCopy, NoXrun))} :
          Done(r, "trigger", p, topo.host[p], cmd, 0)

\* A component signals an XRUN outside the copy cycle (its DMA interrupt).
CompXrun(dev, x) ==
    /\ cppl[dev] # NULL
    /\ \E r \in {Ret(comp_xrun(World, dev, x, Env({}, NoCopy, NoXrun)), 0)} :
          Done(r, "xrun", cppl[dev], dev, 0,
               IF x.kind = "underrun" THEN x.have - x.req ELSE x.req - x.have)

\* The scheduler took the value r the task returned: a task that returns
\* SOF_TASK_STATE_COMPLETED leaves the schedule.
schedule_task_returned(r, p) ==
    IF r.err = SOF_TASK_STATE_COMPLETED
    THEN Ret([r.st EXCEPT !.sched_on[p] = FALSE], r.err)
    ELSE r

\* The scheduler runs the registered task for one period.
PipelineTask(p, env) ==
    /\ sched_on[p]
    /\ \E r \in {schedule_task_returned(pipeline_task(World, p, env), p)} :
          Done(r, "task", p, 0, 0, 0)

\* ipc_pipeline_free: the host frees pipeline p.
ipc_pipeline_free(p) ==
    \E r \in {pipeline_free(World, p)} : Done(r, "pipeline_free", p, source_comp[p], 0, 0)

\* No pipeline was freed: after ipc_pipeline_free succeeded the host has
\* torn the topology down and sends no command for it.
topology_alive == ~(pcall.op = "pipeline_free" /\ pcall.ret = 0)

IpcPipelineFree == \E p \in topo.pipes : ipc_pipeline_free(p)
IpcPipelineComplete == \E p \in topo.pipes : ipc_pipeline_complete(p)
IpcStreamPcmParams == \E p \in topo.pipes, pf \in PrepareFails : ipc_stream_pcm_params(p, pf)
IpcStreamPcmFree == \E p \in topo.pipes : ipc_stream_pcm_free(p)
IpcStreamTrigger ==
    \E p \in topo.pipes, pf \in PrepareFails,
       cmd \in {COMP_TRIGGER_START, COMP_TRIGGER_STOP, COMP_TRIGGER_PAUSE, COMP_TRIGGER_RELEASE} :
        ipc_stream_trigger(p, cmd, pf)
CompXrunSignal == \E dev \in topo.comps, x \in XrunSignals : CompXrun(dev, x)
PipelineTaskRun ==
    \E p \in topo.pipes, pf \in PrepareFails, copy \in CopyOutcomes, x \in XrunSignals :
        PipelineTask(p, Env(pf, copy, x))

-----------------------------------------------------------------------------
(* Per-period frame count, component.c *)

\* int is 32 bits wide.
INT_MAX == 2147483647

\* a / b in C, the quotient truncated towards zero, for b > 0.
c_div(a, b) == IF a >= 0 THEN a \div b ELSE -((-a) \div b)

\* ceil_divide that drops the remainder.
ceil_divide_Truncates(a, b) == c_div(a, b)

\* ceil_divide(a, b), math/numbers.h: the quotient, one more when the signs
\* agree and the division left a remainder.
ceil_divide(a, b) ==
    IF (a >= 0) = (b >= 0) /\ c_div(a, b) * b # a THEN c_div(a, b) + 1 ELSE c_div(a, b)

\* pipeline_comp_period_frames(current, rate): the value stored in
\* current->frames, for current->output_rate and ipc_pipe.period.
pipeline_comp_period_frames(output_rate, rate, period) ==
    ceil_divide((IF output_rate # 0 THEN output_rate ELSE rate) * period, 1000000)

\* Stream rates in Hz, the target rates a component is given (0: none) and
\* the pipeline periods in microseconds.
StreamRates == {8000, 11025, 16000, 44100, 48000, 96000, 192000}
OutputRates == {0, 16000, 44100, 48000}
Periods == {250, 333, 500, 1000, 5000, 10000}

NoFrames == [rate |-> 0, output_rate |-> 0, period |-> 0, frames |-> 0, done |-> FALSE]

FramesInit ==
    \E rate \in StreamRates, output_rate \in OutputRates, period \in Periods :
        frames_call = [rate |-> rate, output_rate |-> output_rate, period |-> period,
                       frames |-> 0, done |-> FALSE]

\* The int product samplerate * period of the call does not overflow.
product_fits(output_rate, rate, period) ==
    (IF output_rate # 0 THEN output_rate ELSE rate) <= INT_MAX \div period

\* pipeline_comp_params reaches the component; the rates and periods of the
\* streams keep the product within int.
PeriodFrames ==
    /\ ~frames_call.done
    /\ product_fits(frames_call.output_rate, frames_call.rate, frames_call.period)
    /\ frames_call' = [frames_call EXCEPT
                          !.frames = pipeline_comp_period_frames(
                                         frames_call.output_rate, frames_call.rate,
                                         frames_call.period),
                          !.done = TRUE]
    /\ UNCHANGED resize_call

-----------------------------------------------------------------------------
(* Buffer resize, src.c *)

\* The largest buffer the heap gives out.
HEAP_BUFFER_SIZE == MaxSize

NoResize == [size |-> 0, ret |-> 0, pre |-> buffer_init(1), done |-> FALSE]

\* buffer_set_size(buffer, size): the buffer afterwards and the value
\* returned; realloc_ok tells whether rbrealloc returned a chunk.
buffer_set_size(b, size, realloc_ok) ==
    IF size = 0 \/ size > HEAP_BUFFER_SIZE THEN [buf |-> b, ret |-> -EINVAL]
    ELSE IF size = b.size THEN [buf |-> b, ret |-> 0]
    ELSE IF ~realloc_ok /\ size > b.size THEN [buf |-> b, ret |-> -ENOMEM]
    ELSE [buf |-> buffer_init(size), ret |-> 0]

\* A component resizes the buffer from task context, between transactions.
BufSetSize(size, realloc_ok) ==
    /\ tpc = "idle"
    /\ buf' = buffer_set_size(buf, size, realloc_ok).buf
    /\ resize_call' = [size |-> size, ret |-> buffer_set_size(buf, size, realloc_ok).ret,
                       pre |-> buf, done |-> TRUE]
    /\ UNCHANGED <<tpc, cb_data, buf_op, notif, tentry, frames_call>>

BufResize == \E size \in 0..(HEAP_BUFFER_SIZE + 1), realloc_ok \in BOOLEAN : BufSetSize(size, realloc_ok)

-----------------------------------------------------------------------------
(* MCLK source and dividers, mn.c *)

\* The number of MCLK outputs of the platform.
DAI_NUM_SSP_MCLK == 2

\* The source clock tables of the platforms, in kHz, in ascending order.
SspFreqTables == {<<19200, 24576>>, <<24000, 96000, 120000>>}

\* The MCLK rates the DAI configurations ask for, in kHz.
MclkRates == {2400, 12288, 15000, 19200, 24000, 200000}

MAX_SSP_FREQ_INDEX(freq) == Len(freq) - 1

\* The registers and the bookkeeping of struct mn: [used, clock, ctrl, divr].
Mn(used, clock, ctrl, divr) == [used |-> used, clock |-> clock, ctrl |-> ctrl, divr |-> divr]

\* is_mclk_source_in_use(): the loop finds a used MCLK and sets ret, and
\* the function ends with "return false".
is_mclk_source_in_use(mn) == FALSE

\* The loop of setup_initial_mclk_source, from index i down: the smallest
\* index of the top run of sources not below the rate that the rate divides.
RECURSIVE search_mclk_source(_, _, _, _)
search_mclk_source(freq, mclk_rate, i, clk_index) ==
    IF i < 0 THEN clk_index
    ELSE IF mclk_rate > freq[i + 1] THEN clk_index
    ELSE search_mclk_source(freq, mclk_rate, i - 1,
                            IF freq[i + 1] % mclk_rate = 0 THEN i ELSE clk_index)

setup_initial_mclk_source(freq, mn, mclk_rate) ==
    LET clk_index == search_mclk_source(freq, mclk_rate, MAX_SSP_FREQ_INDEX(freq), -1)
    IN IF clk_index < 0 THEN [mn |-> mn, ret |-> -EINVAL]
       ELSE [mn |-> [mn EXCEPT !.clock = clk_index, !.ctrl = mn.ctrl \cup {clk_index}],
             ret |-> 0]

check_current_mclk_source(freq, mn, mclk_rate) ==
    IF freq[mn.clock + 1] % mclk_rate # 0 THEN [mn |-> mn, ret |-> -EINVAL]
    ELSE [mn |-> mn, ret |-> 0]

set_mclk_divider(mn, mclk_id, mdivr_val) ==
    CASE mdivr_val = 1 -> [mn |-> [mn EXCEPT !.divr[mclk_id] = <<4095>>], ret |-> 0]
      [] mdivr_val = 2 -> [mn |-> [mn EXCEPT !.divr[mclk_id] = <<0>>], ret |-> 0]
      [] mdivr_val = 4 -> [mn |-> [mn EXCEPT !.divr[mclk_id] = <<2>>], ret |-> 0]
      [] mdivr_val = 8 -> [mn |-> [mn EXCEPT !.divr[mclk_id] = <<6>>], ret |-> 0]
      [] OTHER -> [mn |-> mn, ret |-> -EINVAL]

mn_set_mclk(freq, mn, mclk_id, mclk_rate) ==
    IF mclk_id >= DAI_NUM_SSP_MCLK THEN [mn |-> mn, ret |-> -EINVAL]
    ELSE LET released == [mn EXCEPT !.used[mclk_id] = FALSE]
             src == IF is_mclk_source_in_use(released)
                    THEN check_current_mclk_source(freq, released, mclk_rate)
                    ELSE setup_initial_mclk_source(freq, released, mclk_rate)
         IN IF src.ret < 0 THEN src
            ELSE set_mclk_divider([src.mn EXCEPT !.used[mclk_id] = TRUE], mclk_id,
                                  freq[src.mn.clock + 1] \div mclk_rate)

mn_release_mclk(mn, mclk_id) == [mn EXCEPT !.used[mclk_id] = FALSE]

NoMnCall == [op |-> "none", mclk_id |-> 0, mclk_rate |-> 0, ret |-> 0,
             pre |-> Mn(<<>>, 0, {}, <<>>)]

\* mn_init on the zeroed struct mn.
MnInit ==
    /\ ssp_freq \in SspFreqTables
    /\ mclk_sources_used = [id \in 0..(DAI_NUM_SSP_MCLK - 1) |-> FALSE]
    /\ mclk_source_clock = 0
    /\ mdivctrl = {}
    /\ mdivr = [id \in 0..(DAI_NUM_SSP_MCLK - 1) |-> <<>>]
    /\ mn_call = NoMnCall

MnIdle ==
    /\ ssp_freq = <<>> /\ mclk_sources_used = <<>> /\ mclk_source_clock = 0
    /\ mdivctrl = {} /\ mdivr = <<>> /\ mn_call = NoMnCall

MnNow == Mn(mclk_sources_used, mclk_source_clock, mdivctrl, mdivr)

MnBecomes(mn) ==
    /\ mclk_sources_used' = mn.used
    /\ mclk_source_clock' = mn.clock
    /\ mdivctrl' = mn.ctrl
    /\ mdivr' = mn.divr
    /\ UNCHANGED ssp_freq

\* An SSP DAI sets its hardware configuration.
MnSetMclk ==
    \E mclk_id \in 0..DAI_NUM_SSP_MCLK, mclk_rate \in MclkRates :
        LET r == mn_set_mclk(ssp_freq, MnNow, mclk_id, mclk_rate)
        IN /\ MnBecomes(r.mn)
           /\ mn_call' = [op |-> "set_mclk", mclk_id |-> mclk_id, mclk_rate |-> mclk_rate,
                          ret |-> r.ret, pre |-> MnNow]

\* An SSP DAI is removed.
MnReleaseMclk ==
    \E mclk_id \in 0..(DAI_NUM_SSP_MCLK - 1) :
        /\ MnBecomes(mn_release_mclk(MnNow, mclk_id))
        /\ mn_call' = [op |-> "release_mclk", mclk_id |-> mclk_id, mclk_rate |-> 0,
                       ret |-> 0, pre |-> MnNow]

-----------------------------------------------------------------------------
(* Specifications *)

FsmIdle == dev_state = COMP_STATE_INIT /\ fsm_call = NoCall /\ fsm_prev = NoCall
BufIdle == buf = buffer_init(1) /\ tpc = "idle" /\ cb_data = NoCb /\ buf_op = NoOp
           /\ notif = NoNotif /\ tentry = NoEntry
PplIdle ==
    /\ topo = ChainPlayback(DaiId)
    /\ cstate = <<>> /\ cdir = <<>> /\ cppl = <<>> /\ pstatus = <<>> /\ xrun_bytes = <<>>
    /\ source_comp = <<>> /\ sink_comp = <<>> /\ pipe_task = <<>> /\ sched_on = <<>>
    /\ plog = <<>> /\ pcall = NoPplCall /\ recoveries = <<>>

ParIdle == frames_call = NoFrames /\ resize_call = NoResize

\* The component state machine alone.
SpecFsmInit == FsmInit /\ BufIdle /\ PplIdle /\ ParIdle /\ MnIdle
SpecFsmNext == FsmStep /\ UNCHANGED <<buf_vars, ppl_vars, par_vars, mn_vars>>
SpecFsm == SpecFsmInit /\ [][SpecFsmNext]_vars

\* One ring buffer with a task-context and an interrupt-context user.
SpecBufInit == BufInit /\ FsmIdle /\ PplIdle /\ ParIdle /\ MnIdle
SpecBufNext ==
    \/ BufProduceEnter /\ UNCHANGED <<fsm_vars, ppl_vars, par_vars, mn_vars>>
    \/ TaskProduceCommit /\ UNCHANGED <<fsm_vars, ppl_vars, par_vars, mn_vars>>
    \/ BufConsumeEnter /\ UNCHANGED <<fsm_vars, ppl_vars, par_vars, mn_vars>>
    \/ TaskConsumeCommit /\ UNCHANGED <<fsm_vars, ppl_vars, par_vars, mn_vars>>
    \/ BufIrqProduce /\ UNCHANGED <<fsm_vars, ppl_vars, par_vars, mn_vars>>
    \/ BufIrqConsume /\ UNCHANGED <<fsm_vars, ppl_vars, par_vars, mn_vars>>
SpecBuf == SpecBufInit /\ [][SpecBufNext]_vars

\* The ring buffer with a producer, a consumer and a component that resizes it.
SpecResizeNext ==
    \/ BufIrqProduce /\ UNCHANGED <<fsm_vars, ppl_vars, par_vars, mn_vars>>
    \/ BufIrqConsume /\ UNCHANGED <<fsm_vars, ppl_vars, par_vars, mn_vars>>
    \/ BufResize /\ UNCHANGED <<fsm_vars, ppl_vars, mn_vars>>
SpecResize == SpecBufInit /\ [][SpecResizeNext]_vars

\* One pipeline of three components, its host commands, XRUN signals and task.
SpecPipeInit == PplInit /\ FsmIdle /\ BufIdle /\ ParIdle /\ MnIdle
SpecPipeNext ==
    \/ IpcPipelineComplete /\ UNCHANGED <<fsm_vars, buf_vars, par_vars, mn_vars>>
    \/ IpcStreamPcmParams /\ UNCHANGED <<fsm_vars, buf_vars, par_vars, mn_vars>>
    \/ IpcStreamPcmFree /\ UNCHANGED <<fsm_vars, buf_vars, par_vars, mn_vars>>
    \/ IpcStreamTrigger /\ UNCHANGED <<fsm_vars, buf_vars, par_vars, mn_vars>>
    \/ CompXrunSignal /\ UNCHANGED <<fsm_vars, buf_vars, par_vars, mn_vars>>
    \/ PipelineTaskRun /\ UNCHANGED <<fsm_vars, buf_vars, par_vars, mn_vars>>
SpecPipe == SpecPipeInit /\ [][SpecPipeNext]_vars

\* One pipeline up to the moment the host frees it.
SpecFreeNext ==
    \/ topology_alive /\ SpecPipeNext
    \/ topology_alive /\ IpcPipelineFree /\ UNCHANGED <<fsm_vars, buf_vars, par_vars, mn_vars>>
SpecFree == SpecPipeInit /\ [][SpecFreeNext]_vars

\* One pipeline in which two paths from the Host join again.
SpecJoinInit == PplInitOn(JoinTopologies) /\ FsmIdle /\ BufIdle /\ ParIdle /\ MnIdle
SpecJoin == SpecJoinInit /\ [][SpecPipeNext]_vars

\* Two pipelines scheduled apart, one connected to the other, and the
\* commands of the host.
SpecCrossInit == PplInitOn(CrossTopologies) /\ FsmIdle /\ BufIdle /\ ParIdle /\ MnIdle
SpecCrossNext ==
    \/ IpcPipelineComplete /\ UNCHANGED <<fsm_vars, buf_vars, par_vars, mn_vars>>
    \/ IpcStreamPcmParams /\ UNCHANGED <<fsm_vars, buf_vars, par_vars, mn_vars>>
    \/ IpcStreamPcmFree /\ UNCHANGED <<fsm_vars, buf_vars, par_vars, mn_vars>>
    \/ IpcStreamTrigger /\ UNCHANGED <<fsm_vars, buf_vars, par_vars, mn_vars>>
SpecCross == SpecCrossInit /\ [][SpecCrossNext]_vars

\* Two connected pipelines, their host commands, XRUN signals and tasks.
SpecPipesInit == PplInitOn(ConnectedTopologies) /\ FsmIdle /\ BufIdle /\ ParIdle /\ MnIdle

\* The per-period frame count of one component, for the rates and periods
\* of the streams.
SpecFramesInit == FramesInit /\ resize_call = NoResize /\ FsmIdle /\ BufIdle /\ PplIdle /\ MnIdle
SpecFramesNext == PeriodFrames /\ UNCHANGED <<fsm_vars, buf_vars, ppl_vars, mn_vars>>
SpecFrames == SpecFramesInit /\ [][SpecFramesNext]_vars
SpecPipes == SpecPipesInit /\ [][SpecPipeNext]_vars

\* The MCLK outputs of the SSP ports, set and released by their DAIs.
SpecMnInit == MnInit /\ FsmIdle /\ BufIdle /\ PplIdle /\ ParIdle
SpecMnNext ==
    \/ MnSetMclk /\ UNCHANGED <<fsm_vars, buf_vars, ppl_vars, par_vars>>
    \/ MnReleaseMclk /\ UNCHANGED <<fsm_vars, buf_vars, ppl_vars, par_vars>>
SpecMn == SpecMnInit /\ [][SpecMnNext]_vars

-----------------------------------------------------------------------------
(* Properties: component state machine *)

\* The transition table of the component state machine: the prior states a
\* command requires and the state it leads to.
TableRequired(cmd) ==
    CASE cmd = COMP_TRIGGER_PREPARE -> {COMP_STATE_READY}
      [] cmd = COMP_TRIGGER_START -> {COMP_STATE_PREPARE}
      [] cmd = COMP_TRIGGER_RELEASE -> {COMP_STATE_PAUSED}
      [] cmd = COMP_TRIGGER_PAUSE -> {COMP_STATE_ACTIVE}
      [] cmd = COMP_TRIGGER_STOP -> {COMP_STATE_ACTIVE, COMP_STATE_PAUSED}
      [] OTHER -> CompStates

TableNew(cmd) ==
    CASE cmd = COMP_TRIGGER_PREPARE -> COMP_STATE_PREPARE
      [] cmd = COMP_TRIGGER_START -> COMP_STATE_ACTIVE
      [] cmd = COMP_TRIGGER_RELEASE -> COMP_STATE_ACTIVE
      [] cmd = COMP_TRIGGER_PAUSE -> COMP_STATE_PAUSED
      [] cmd = COMP_TRIGGER_STOP -> COMP_STATE_PREPARE
      [] OTHER -> COMP_STATE_READY

\* C1: for every state s and stream command c, comp_set_state(s, c) yields
\* exactly one of: the documented new state with success (s is a required
\* prior state of c), "already set" with the state unchanged (s is the state c
\* requests), or InvalidState with the state unchanged; nothing else.
C1_TransitionTableTotal ==
    (fsm_call.cmd \in StreamCmds) =>
        LET s == fsm_call.from
            c == fsm_call.cmd
        IN \/ /\ fsm_call.ret = 0
              /\ s \in TableRequired(c)
              /\ s # TableNew(c)
              /\ dev_state = TableNew(c)
           \/ /\ fsm_call.ret = COMP_STATUS_STATE_ALREADY_SET
              /\ s = TableNew(c)
              /\ dev_state = s
           \/ /\ fsm_call.ret = -EINVAL
              /\ s \notin TableRequired(c)
              /\ s # TableNew(c)
              /\ dev_state = s

\* A STOP issued to a PAUSED component has taken it to PREPARE.
C1_Witness ==
    /\ fsm_call.cmd = COMP_TRIGGER_STOP
    /\ fsm_call.from = COMP_STATE_PAUSED
    /\ fsm_call.ret = 0
    /\ dev_state = COMP_STATE_PREPARE

\* C12: when the state a command requests is the component's current state,
\* comp_set_state leaves the state as it is and returns the "already set"
\* value, which is positive and differs from success and from every error;
\* that value is returned in no other case.
C12_AlreadySetIsNoOp ==
    (fsm_call.cmd \in StreamCmds) =>
        /\ fsm_call.from = TableNew(fsm_call.cmd) =>
              /\ fsm_call.ret = COMP_STATUS_STATE_ALREADY_SET
              /\ fsm_call.ret > 0
              /\ dev_state = fsm_call.from
        /\ fsm_call.ret = COMP_STATUS_STATE_ALREADY_SET =>
              fsm_call.from = TableNew(fsm_call.cmd)

\* A RESET of a READY component was answered "already set".
C12_Witness ==
    /\ fsm_call.cmd = COMP_TRIGGER_RESET
    /\ fsm_call.from = COMP_STATE_READY
    /\ fsm_call.ret = COMP_STATUS_STATE_ALREADY_SET
    /\ dev_state = COMP_STATE_READY

\* The last two calls of comp_set_state handed it the same stream command.
SameCommandTwice ==
    /\ fsm_call.cmd \in StreamCmds
    /\ fsm_prev.cmd = fsm_call.cmd

\* C13, idempotence for every command and starting state: the second of two
\* equal commands in a row returns "already set" and changes no state.
C13_SecondCallAlreadySet ==
    SameCommandTwice =>
        /\ fsm_call.ret = COMP_STATUS_STATE_ALREADY_SET
        /\ dev_state = fsm_call.from

\* C13, for the commands the starting state allows: when the first of two
\* equal commands in a row did not fail, the second returns "already set";
\* when the first was refused with InvalidState, so is the second; the
\* second call changes no state in either case.
C13_SecondCallRepeatsOutcome ==
    SameCommandTwice =>
        /\ dev_state = fsm_call.from
        /\ fsm_prev.ret >= 0 => fsm_call.ret = COMP_STATUS_STATE_ALREADY_SET
        /\ fsm_prev.ret < 0 =>
              (fsm_call.ret = -EINVAL /\ fsm_call.from = fsm_prev.from)

\* Two STOPs in a row on an ACTIVE component: PREPARE, then "already set".
C13_Witness ==
    /\ SameCommandTwice
    /\ fsm_call.cmd = COMP_TRIGGER_STOP
    /\ fsm_prev.from = COMP_STATE_ACTIVE
    /\ fsm_prev.ret = 0
    /\ fsm_call.ret = COMP_STATUS_STATE_ALREADY_SET
    /\ dev_state = COMP_STATE_PREPARE

\* C14: RESET and XRUN never fail: from every state the value returned is
\* not negative and the component is READY afterwards, RESET from ACTIVE or
\* PAUSED included.
C14_ResetAndXrunNeverFail ==
    (fsm_call.cmd \in {COMP_TRIGGER_RESET, COMP_TRIGGER_XRUN}) =>
        /\ fsm_call.ret >= 0
        /\ dev_state = COMP_STATE_READY

\* A RESET of an ACTIVE component, with no STOP before it, succeeded.
C14_Witness ==
    /\ fsm_call.cmd = COMP_TRIGGER_RESET
    /\ fsm_call.from = COMP_STATE_ACTIVE
    /\ fsm_prev.cmd # COMP_TRIGGER_STOP
    /\ fsm_call.ret = 0
    /\ dev_state = COMP_STATE_READY

-----------------------------------------------------------------------------
(* Properties: ring buffer *)

C19_NoBytesNoOp ==
    [][(buf_op'.op # "none" /\ buf_op'.bytes = 0) =>
           (buf' = buf /\ notif' = notif /\ buf_op'.notified = 0)]_vars

\* A produce of no bytes in interrupt context has returned, on a buffer
\* holding data whose last notification was that of a consume.
C19_Witness ==
    /\ buf_op.op = "produce"
    /\ buf_op.ctx = "irq"
    /\ buf_op.bytes = 0
    /\ buf.avail > 0
    /\ notif.id = NOTIFIER_ID_BUFFER_CONSUME

\* The buffer after the transactions irqs, in their order, on buffer b.
RECURSIVE irq_transactions(_, _)
irq_transactions(b, irqs) ==
    IF irqs = <<>> THEN b
    ELSE irq_transactions(transaction(b, Head(irqs).op, Head(irqs).bytes), Tail(irqs))

\* The task context has completed a transaction of bytes and no call of it
\* is open.
TaskTransactionDone ==
    /\ tpc = "idle"
    /\ buf_op.ctx = "task"
    /\ buf_op.bytes > 0

\* C20: a task-context produce or consume of n > 0 bytes that interrupt-
\* context transactions met between its entry and its critical section
\* leaves the buffer as a sequential order of the whole transactions does
\* (the interrupts' transactions, then the task's), and has delivered its one
\* notification with its own kind and byte count.
C20_TransactionsDoNotInterleave ==
    TaskTransactionDone =>
        /\ buf = transaction(irq_transactions(tentry.buf, tentry.irqs),
                             buf_op.op, buf_op.bytes)
        /\ buf_op.notified = 1
        /\ notif.id = buf_op.op
        /\ notif.amount = buf_op.bytes

\* A task-context produce was met by an interrupt-context consume that
\* changed what the produce found.
C20_Witness ==
    /\ TaskTransactionDone
    /\ buf_op.op = "produce"
    /\ Len(tentry.irqs) = 1
    /\ tentry.irqs[1].op = "consume"
    /\ tentry.irqs[1].bytes > 0
    /\ buf # transaction(tentry.buf, buf_op.op, buf_op.bytes)

------------------------------------------------------------------------\* C34: the notification of a task-context produce (consume) carries as
\* starting address the write (read) cursor the buffer has when the critical
\* section is entered, whatever ran in interrupt context since the call was
\* entered.
C34_BeginAddressIsCursorAtCommit ==
    [][/\ (tpc = "produce" /\ tpc' = "idle") => notif'.begin = buf.w_ptr
       /\ (tpc = "consume" /\ tpc' = "idle") => notif'.begin = buf.r_ptr]_vars

-----
(* Properties: pipeline *)

\* The places in the log of the last operation where ev happened to comp.
LogIdx(ev, comp) == {i \in 1..Len(plog) : plog[i].ev = ev /\ plog[i].comp = comp}

\* The components copied by the last operation, in the order of their copies.
CopySeq ==
    LET copies == SelectSeq(plog, LAMBDA e : e.ev = "copy")
    IN [i \in 1..Len(copies) |-> copies[i].comp]

\* Pipeline p ran healthy when the last operation was called: status ACTIVE,
\* no XRUN pending, the task registered, every component ACTIVE.
HealthyActive(p) ==
    /\ pcall.pre.pstatus[p] = COMP_STATE_ACTIVE
    /\ pcall.pre.xrun_bytes[p] = 0
    /\ pcall.pre.sched_on[p]
    /\ \A c \in topo.comps : pcall.pre.cstate[c] = COMP_STATE_ACTIVE

C4_XrunStopsPipeline ==
    (pcall.op = "xrun" /\ HealthyActive(pcall.p)) =>
        /\ \A c \in topo.comps : cstate[c] = COMP_STATE_READY
        /\ pstatus[pcall.p] = COMP_STATE_PAUSED
        /\ ~sched_on[pcall.p]
        /\ xrun_bytes[pcall.p] = pcall.bytes

\* C5: such a signal queues exactly one XRUN notification for every host
\* component of the graph, carrying the byte delta and the id of the
\* component that signalled.
C5_NotifyEachHost ==
    (pcall.op = "xrun" /\ HealthyActive(pcall.p)) =>
        \A h \in {c \in topo.comps : topo.type[c] = SOF_COMP_HOST} :
            /\ Cardinality(LogIdx("ipc_stream_send_xrun", h)) = 1
            /\ \A i \in LogIdx("ipc_stream_send_xrun", h) :
                  plog[i].arg = pcall.bytes /\ plog[i].ret = pcall.dev

\* The last operation was a START of pipeline p with an XRUN pending, the
\* pipeline PAUSED and every component READY.
StartInXrun(p) ==
    /\ pcall.op = "trigger"
    /\ pcall.cmd = COMP_TRIGGER_START
    /\ pcall.p = p
    /\ pcall.pre.xrun_bytes[p] # 0
    /\ pcall.pre.pstatus[p] = COMP_STATE_PAUSED
    /\ \A c \in topo.comps : pcall.pre.cstate[c] = COMP_STATE_READY

C7_CompletedLeavesPaused ==
    (pcall.op = "task" /\ pcall.ret = SOF_TASK_STATE_COMPLETED) =>
        /\ pstatus[pcall.p] = COMP_STATE_PAUSED
        /\ ~sched_on[pcall.p]

\* The last operation was a run of the task in which a copy failed.
TaskCopyFailed ==
    /\ pcall.op = "task"
    /\ \E i \in 1..Len(plog) : plog[i].ev = "copy" /\ plog[i].ret < 0

\* The recovery attempts of the last operation, as places in its log.
Recoveries == {i \in 1..Len(plog) : plog[i].ev = "pipeline_xrun_recover"}

\* C8, as stated: while a fault persists (the task runs make recovery
\* attempts period after period, no host command in between) the attempts
\* stay at two at most, one at the start of a run and one after a failed
\* copy, and the task has returned completed.
C8_GivesUpAfterTwoAttempts ==
    \A p \in topo.pipes : recoveries[p] <= 2

\* C8, amended: one run of the task makes at most two recovery attempts, one
\* at its start when an XRUN is pending and one after a failed copy; it
\* returns completed, and leaves the schedule, exactly when its last attempt
\* failed, and is rescheduled otherwise, a persisting fault included.
C8_BoundedRecoveryPerRun ==
    pcall.op = "task" =>
        /\ Cardinality(Recoveries) =
              (IF pcall.pre.xrun_bytes[pcall.p] # 0 THEN 1 ELSE 0)
              + (IF TaskCopyFailed THEN 1 ELSE 0)
        /\ pcall.ret = SOF_TASK_STATE_COMPLETED <=>
              (plog # <<>> /\ plog[Len(plog)].ev = "pipeline_xrun_recover_error")
        /\ pcall.ret = SOF_TASK_STATE_COMPLETED => ~sched_on[pcall.p]
        /\ pcall.ret # SOF_TASK_STATE_COMPLETED => pcall.ret = SOF_TASK_STATE_RESCHEDULE

C8_Witness ==
    /\ pcall.op = "task"
    /\ Cardinality(Recoveries) = 2
    /\ pcall.ret = SOF_TASK_STATE_COMPLETED

\* The last operation was a STOP of pipeline p with an XRUN pending and the
\* pipeline PAUSED.
StopInXrun(p) ==
    /\ pcall.op = "trigger"
    /\ pcall.cmd = COMP_TRIGGER_STOP
    /\ pcall.p = p
    /\ pcall.pre.xrun_bytes[p] # 0
    /\ pcall.pre.pstatus[p] = COMP_STATE_PAUSED

\* C18: a STOP of a pipeline with an XRUN pending (xrun_bytes not 0, status
\* PAUSED) returns success without a trigger, or any other call, on any
\* component; the component states, the pipeline status, xrun_bytes and the
\* scheduling of the task are what they were.
C18_StopInXrunIsNoOp ==
    \A p \in topo.pipes :
        StopInXrun(p) =>
            /\ pcall.ret = 0
            /\ plog = <<>>
            /\ cstate = pcall.pre.cstate
            /\ pstatus = pcall.pre.pstatus
            /\ xrun_bytes = pcall.pre.xrun_bytes
            /\ sched_on = pcall.pre.sched_on

C18_Witness ==
    /\ StopInXrun(1)
    /\ pcall.ret = 0
    /\ \A c \in topo.comps : cstate[c] = COMP_STATE_READY

\* The copy() calls of the last operation, as places in its log.
Copies == {i \in 1..Len(plog) : plog[i].ev = "copy"}

\* C15: in a copy cycle of pipeline p every copy() call is on a component
\* that is ACTIVE when called and belongs to p; a component of p that was not
\* ACTIVE is not copied; and a cycle in which no copy() call failed, skips
\* included, is not taken for a failure: no recovery follows it and the task
\* is rescheduled.
C15_CopyOnlyActiveOfPipeline ==
    pcall.op = "task" =>
        /\ \A i \in Copies :
              /\ plog[i].state = COMP_STATE_ACTIVE
              /\ topo.pipeline_id[plog[i].comp] = pcall.p
        /\ pcall.pre.xrun_bytes[pcall.p] = 0 =>
              \A i \in Copies : pcall.pre.cstate[plog[i].comp] = COMP_STATE_ACTIVE
        /\ (pcall.pre.xrun_bytes[pcall.p] = 0 /\ ~TaskCopyFailed) =>
              /\ Recoveries = {}
              /\ pcall.ret = SOF_TASK_STATE_RESCHEDULE

\* The task of pipeline 2 copied the DAI and left the ACTIVE Volume of
\* pipeline 1, the DAI's upstream neighbour, alone.
C15_Witness ==
    /\ pcall.op = "task"
    /\ pcall.p = 2
    /\ pcall.pre.cstate[VolumeId] = COMP_STATE_ACTIVE
    /\ CopySeq = <<DaiId>>
    /\ pcall.ret = SOF_TASK_STATE_RESCHEDULE

\* A copy cycle in which a component that is not ACTIVE was skipped.
C15_WitnessNotActive ==
    /\ pcall.op = "task"
    /\ pcall.pre.xrun_bytes[pcall.p] = 0
    /\ \E c \in topo.comps :
          /\ topo.pipeline_id[c] = pcall.p
          /\ pcall.pre.cstate[c] # COMP_STATE_ACTIVE
    /\ plog = <<>>
    /\ pcall.ret = SOF_TASK_STATE_RESCHEDULE

\* C16: at every call of a component's copy() the status of the component's
\* pipeline is ACTIVE.
C16_CopyOnlyWhilePipelineActive ==
    \A i \in Copies : plog[i].status = COMP_STATE_ACTIVE

\* C17: pipeline_reset never fails and its walk goes on after a reset hook
\* that reports a failure or an early stop: when the host frees the stream of
\* a chain, every component of the chain (all are on the walk from the host)
\* is READY afterwards and the result is not an error.
C17_ResetReachesEveryComponent ==
    pcall.op = "pcm_free" =>
        /\ pcall.ret >= 0
        /\ \A c \in topo.comps : cstate[c] = COMP_STATE_READY

\* C22: pipeline_free of a pipeline with a component beyond READY (PREPARE,
\* PAUSED or ACTIVE) fails with -EBUSY, detaches no component and frees
\* nothing.
C22_FreeOnlyWhenNoComponentBeyondReady ==
    (/\ pcall.op = "pipeline_free"
     /\ \E c \in topo.comps :
           /\ topo.pipeline_id[c] = pcall.p
           /\ pcall.pre.cstate[c] > COMP_STATE_READY) =>
        /\ pcall.ret = -EBUSY
        /\ plog = <<>>
        /\ \A c \in topo.comps : cppl[c] # NULL

\* The components of the pipeline of c that are n buffers or fewer downstream
\* of the components in from, through components of that pipeline only.
RECURSIVE downstream_in_pipeline(_, _, _)
downstream_in_pipeline(c, from, n) ==
    IF n = 0 THEN from
    ELSE downstream_in_pipeline(c,
             from \cup {d \in topo.comps :
                          /\ comp_is_single_pipeline(d, c)
                          /\ \E e \in from : \E i \in 1..Len(topo.bsink_list[e]) :
                                topo.buf_sink[topo.bsink_list[e][i]] = d},
             n - 1)

\* The step is a pipeline_complete that succeeds on a pipeline in INIT.
CompleteSucceeds ==
    /\ pcall'.op = "complete"
    /\ pcall'.ret = 0
    /\ pstatus[pcall'.p] = COMP_STATE_INIT

\* C23: after pipeline_complete(p, source, sink) succeeds on a pipeline in
\* INIT, every component of the pipeline reachable downstream from source
\* refers back to p, no component of another pipeline has changed, source and
\* sink are recorded and the status is READY.
C23_CompleteClaimsOwnComponents ==
    [][CompleteSucceeds =>
        /\ \A c \in downstream_in_pipeline(pcall'.dev, {pcall'.dev}, Cardinality(topo.comps)) :
              cppl'[c] = pcall'.p
        /\ \A c \in topo.comps :
              topo.pipeline_id[c] # pcall'.p =>
                  /\ cppl'[c] = cppl[c]
                  /\ cstate'[c] = cstate[c]
                  /\ cdir'[c] = cdir[c]
        /\ source_comp'[pcall'.p] = pcall'.dev
        /\ sink_comp'[pcall'.p] = ipc_get_ppl_comp(pcall'.p, PPL_DIR_DOWNSTREAM)
        /\ pstatus'[pcall'.p] = COMP_STATE_READY]_vars

\* Pipeline 1 was completed after pipeline 2: the DAI still refers to
\* pipeline 2.
C23_Witness ==
    /\ pcall.op = "complete"
    /\ pcall.ret = 0
    /\ pcall.p = 1
    /\ cppl = <<1, 1, 2>>
    /\ source_comp[1] = HostId
    /\ sink_comp[1] = VolumeId

\* Component c is the one its pipeline reacts at: the scheduling component
\* of the pipeline, or the sink of the pipeline when the scheduling component
\* is a component of another pipeline.
ReactsAt(c) ==
    \/ topo.sched_comp[cppl[c]] = c
    \/ /\ cppl[topo.sched_comp[cppl[c]]] # cppl[c]
       /\ sink_comp[cppl[c]] = c

\* The entries of the log where a task is scheduled or cancelled.
Reactions(q) ==
    {i \in 1..Len(plog) : /\ plog[i].ev \in {"schedule_task", "schedule_task_cancel"}
                          /\ plog[i].comp = q}

LastReaction(q) == CHOOSE i \in Reactions(q) : \A j \in Reactions(q) : j <= i

\* C25: in a trigger walk the pipeline reacts exactly at its scheduling
\* component (or at its sink when the scheduling component is in another
\* pipeline) and only after that component's trigger returned 0: PAUSE, STOP
\* and XRUN cancel the task and set PAUSED; START and RELEASE schedule the
\* task, clear xrun_bytes and set ACTIVE; at any other component status,
\* xrun_bytes and scheduling stay as they are.
C25_PipelineReactsAtSchedulingComponent ==
    /\ \A i \in 1..Len(plog) :
          (plog[i].ev = "trigger" /\ plog[i].ret = 0 /\ ReactsAt(plog[i].comp)) =>
              /\ i < Len(plog)
              /\ plog[i + 1].comp = cppl[plog[i].comp]
              /\ plog[i].arg \in {COMP_TRIGGER_PAUSE, COMP_TRIGGER_STOP, COMP_TRIGGER_XRUN}
                    => plog[i + 1].ev = "schedule_task_cancel"
              /\ plog[i].arg \in {COMP_TRIGGER_START, COMP_TRIGGER_RELEASE}
                    => plog[i + 1].ev = "schedule_task"
    /\ \A i \in 1..Len(plog) :
          plog[i].ev \in {"schedule_task", "schedule_task_cancel"} =>
              /\ i > 1
              /\ plog[i - 1].ev = "trigger"
              /\ plog[i - 1].ret = 0
              /\ ReactsAt(plog[i - 1].comp)
              /\ cppl[plog[i - 1].comp] = plog[i].comp
    /\ pcall.op = "trigger" =>
          \A q \in topo.pipes :
              IF Reactions(q) = {}
              THEN pcall.pre.xrun_bytes[pcall.p] = 0 =>
                       /\ pstatus[q] = pcall.pre.pstatus[q]
                       /\ xrun_bytes[q] = pcall.pre.xrun_bytes[q]
                       /\ sched_on[q] = pcall.pre.sched_on[q]
              ELSE IF plog[LastReaction(q)].ev = "schedule_task"
              THEN /\ pstatus[q] = COMP_STATE_ACTIVE
                   /\ xrun_bytes[q] = 0
                   /\ sched_on[q]
              ELSE /\ pstatus[q] = COMP_STATE_PAUSED
                   /\ ~sched_on[q]

\* START over two pipelines scheduled by the DAI of pipeline 2: pipeline 1
\* reacted at its sink (the Volume), pipeline 2 at the DAI, not at the Host.
C25_Witness ==
    /\ pcall.op = "trigger"
    /\ pcall.cmd = COMP_TRIGGER_START
    /\ topo.sched_comp[1] = DaiId
    /\ Len(plog) = 5
    /\ plog[1].ev = "trigger" /\ plog[1].comp = HostId /\ plog[1].ret = 0
    /\ plog[2].ev = "trigger" /\ plog[2].comp = VolumeId
    /\ plog[3].ev = "schedule_task" /\ plog[3].comp = 1
    /\ plog[5].ev = "schedule_task" /\ plog[5].comp = 2
    /\ pstatus = <<COMP_STATE_ACTIVE, COMP_STATE_ACTIVE>>

\* Component c is of another pipeline than component start, and the two
\* pipelines have different scheduling components.
ScheduledApart(c, start) ==
    /\ ~comp_is_single_pipeline(c, start)
    /\ ~pipeline_is_same_sched_comp(cppl[c], cppl[start])

\* C29: a trigger walk does not enter a pipeline scheduled apart from the
\* pipeline of the start component: no component of such a pipeline is
\* triggered, its state, the status of its pipeline and the scheduling of its
\* task are unchanged, and the walk that reached it and met no other
\* outcome returns 0.
C29_TriggerStaysInSchedulingDomain ==
    pcall.op = "trigger" =>
        /\ \A c \in topo.comps :
              ScheduledApart(c, pcall.dev) =>
                  /\ \A i \in 1..Len(plog) : ~(plog[i].ev = "trigger" /\ plog[i].comp = c)
                  /\ cstate[c] = pcall.pre.cstate[c]
                  /\ pstatus[cppl[c]] = pcall.pre.pstatus[cppl[c]]
                  /\ sched_on[cppl[c]] = pcall.pre.sched_on[cppl[c]]
                  /\ xrun_bytes[cppl[c]] = pcall.pre.xrun_bytes[cppl[c]]
        /\ (\A i \in 1..Len(plog) : plog[i].ev = "trigger" => plog[i].ret = 0)
              => pcall.ret = 0

\* START from the Host of pipeline 1 reached the Volume of pipeline 2: the
\* Volume and the DAI behind it stay in PREPARE, pipeline 2 stays READY and
\* unscheduled.
C29_Witness ==
    /\ topo = CrossPlayback
    /\ pcall.op = "trigger"
    /\ pcall.cmd = COMP_TRIGGER_START
    /\ pcall.ret = 0
    /\ cstate = <<COMP_STATE_ACTIVE, COMP_STATE_PREPARE, COMP_STATE_PREPARE>>
    /\ pstatus = <<COMP_STATE_ACTIVE, COMP_STATE_READY>>
    /\ sched_on = <<TRUE, FALSE>>

\* The direction in which the walks of the last host command propagate:
\* ipc_stream_pcm_params hands the direction of the stream to pipeline_params
\* and the Host keeps it for pipeline_prepare; pipeline_reset takes the
\* direction the Host had.
PropagationDir ==
    IF pcall.op = "pcm_params" THEN topo.direction[pcall.p] ELSE pcall.pre.cdir[pcall.dev]

\* No params, prepare or reset reached component c in the last operation and
\* c is as it was.
Untouched(c) ==
    /\ \A i \in 1..Len(plog) :
          ~(plog[i].comp = c /\ plog[i].ev \in {"params", "prepare", "reset"})
    /\ cstate[c] = pcall.pre.cstate[c]
    /\ cdir[c] = pcall.pre.cdir[c]

\* The components of the pipelines other than the one the host addressed.
OtherPipeline == {c \in topo.comps : topo.pipeline_id[c] # pcall.p}

\* C30 as stated: a params, prepare or reset walk does not enter another
\* pipeline when it propagates PLAYBACK and that pipeline's sink is a host or
\* a generic component, nor when it propagates CAPTURE and that pipeline's
\* upstream end (its source) is a DAI or a generic component.
C30_SuppressedAtUpstreamBoundary ==
    pcall.op \in {"pcm_params", "pcm_free"} =>
        \A c \in OtherPipeline :
            (\/ /\ PropagationDir = SOF_IPC_STREAM_PLAYBACK
                /\ comp_get_endpoint_type(sink_comp[cppl[c]])
                      \in {COMP_ENDPOINT_HOST, COMP_ENDPOINT_NODE}
             \/ /\ PropagationDir = SOF_IPC_STREAM_CAPTURE
                /\ comp_get_endpoint_type(source_comp[cppl[c]])
                      \in {COMP_ENDPOINT_DAI, COMP_ENDPOINT_NODE})
                => Untouched(c)

\* C30: a params, prepare or reset walk does not enter another pipeline when
\* it propagates PLAYBACK and that pipeline's sink is a host or a generic
\* component, nor when it propagates CAPTURE and that pipeline's sink is a
\* DAI or a generic component; the command goes on as if the component were
\* not there.
C30_SuppressedByOtherSink ==
    pcall.op \in {"pcm_params", "pcm_free"} =>
        \A c \in OtherPipeline :
            (\/ /\ PropagationDir = SOF_IPC_STREAM_PLAYBACK
                /\ comp_get_endpoint_type(sink_comp[cppl[c]])
                      \in {COMP_ENDPOINT_HOST, COMP_ENDPOINT_NODE}
             \/ /\ PropagationDir = SOF_IPC_STREAM_CAPTURE
                /\ comp_get_endpoint_type(sink_comp[cppl[c]])
                      \in {COMP_ENDPOINT_DAI, COMP_ENDPOINT_NODE})
                => Untouched(c)

\* The capture stream of pipeline 1 got its parameters and was prepared; the
\* Volume of pipeline 2 upstream of the Host, whose pipeline ends in the DAI,
\* and the DAI are as they were.
C30_Witness ==
    /\ topo = CrossCapture
    /\ pcall.op = "pcm_params"
    /\ pcall.ret = 1
    /\ cstate = <<COMP_STATE_PREPARE, COMP_STATE_READY, COMP_STATE_READY>>
    /\ cdir = <<SOF_IPC_STREAM_CAPTURE, SOF_IPC_STREAM_PLAYBACK, SOF_IPC_STREAM_PLAYBACK>>

\* The component hooks whose calls in the log of the last operation are those
\* of one walk: each host command and the task run one walk of the kind.
OneWalk ==
    CASE pcall.op = "pcm_params" -> {"params", "prepare"}
      [] pcall.op = "pcm_free" -> {"reset"}
      [] pcall.op = "trigger" /\ pcall.pre.xrun_bytes[pcall.p] = 0 -> {"trigger"}
      [] pcall.op = "task" -> {"copy"}
      [] OTHER -> {}

\* C26: a walk applies its component action to each component at most once,
\* also when two paths from the start component join again.
C26_EachComponentOncePerWalk ==
    \A i, j \in 1..Len(plog) :
        (/\ i < j
         /\ plog[i].ev \in OneWalk
         /\ plog[i].ev = plog[j].ev) => plog[i].comp # plog[j].comp

C28_StopEndsWalk ==
    \A i \in 1..Len(plog) :
        (/\ plog[i].ev \in OneWalk
         /\ plog[i].ret = PPL_STATUS_PATH_STOP) =>
            /\ \A j \in (i + 1)..Len(plog) : plog[j].ev # plog[i].ev
            /\ pcall.ret >= 0

\* C31: an XRUN signalled while xrun_bytes of the pipeline is not 0 is
\* skipped: no trigger is issued, no message is sent to a host, and
\* xrun_bytes, the component states, the status and the scheduling stay.
C31_XrunWhilePendingIsSkipped ==
    (pcall.op = "xrun" /\ pcall.pre.xrun_bytes[pcall.p] # 0) =>
        /\ \A i \in 1..Len(plog) : plog[i].ev \in {"comp_underrun", "comp_overrun"}
        /\ xrun_bytes = pcall.pre.xrun_bytes
        /\ cstate = pcall.pre.cstate
        /\ pstatus = pcall.pre.pstatus
        /\ sched_on = pcall.pre.sched_on

\* An overrun of 512 bytes was signalled by an ACTIVE component while an
\* underrun of 512 bytes was pending.
C31_Witness ==
    /\ pcall.op = "xrun"
    /\ pcall.pre.xrun_bytes[pcall.p] = -512
    /\ pcall.bytes = 512
    /\ pcall.pre.cstate[pcall.dev] = COMP_STATE_ACTIVE
    /\ xrun_bytes[pcall.p] = -512

\* The entries of the log of the recovery entered at i: those up to the next
\* recovery.
RecoveryLog(i) ==
    {j \in (i + 1)..Len(plog) : \A k \in Recoveries : k <= i \/ k > j}

PrepareFailed(i) ==
    \E j \in RecoveryLog(i) : plog[j].ev = "prepare" /\ plog[j].ret < 0

Starts(i) ==
    {j \in RecoveryLog(i) : plog[j].ev = "trigger" /\ plog[j].arg = COMP_TRIGGER_START}

\* C32: a recovery prepares every component of the pipeline and starts the
\* pipeline only after that; when a prepare fails the recovery fails, no START
\* is issued, xrun_bytes keeps its value and no component becomes ACTIVE.
C32_RecoveryPreparesThenStarts ==
    pcall.op = "task" =>
        \A i \in Recoveries :
            IF PrepareFailed(i)
            THEN /\ Starts(i) = {}
                 /\ pcall.ret = SOF_TASK_STATE_COMPLETED
                 /\ i = 1 => /\ xrun_bytes = pcall.pre.xrun_bytes
                             /\ \A c \in topo.comps :
                                   cstate[c] = COMP_STATE_ACTIVE
                                       => pcall.pre.cstate[c] = COMP_STATE_ACTIVE
            ELSE /\ \A c \in topo.comps :
                       \E j \in RecoveryLog(i) : plog[j].ev = "prepare" /\ plog[j].comp = c
                 /\ Starts(i) # {}
                 /\ \A j \in RecoveryLog(i), k \in Starts(i) : plog[j].ev = "prepare" => j < k

\* The changes of the pipeline status: INIT -> READY, READY -> PREPARE,
\* PREPARE -> ACTIVE, ACTIVE -> PAUSED, PAUSED -> ACTIVE.
StatusEdges ==
    {<<COMP_STATE_INIT, COMP_STATE_READY>>, <<COMP_STATE_READY, COMP_STATE_PREPARE>>,
     <<COMP_STATE_PREPARE, COMP_STATE_ACTIVE>>, <<COMP_STATE_ACTIVE, COMP_STATE_PAUSED>>,
     <<COMP_STATE_PAUSED, COMP_STATE_ACTIVE>>}

\* C33: whatever the operation, the status of a pipeline changes along the
\* edges of StatusEdges only.
C33_StatusChangesAlongEdges ==
    [][\A p \in topo.pipes :
          pstatus'[p] # pstatus[p] => <<pstatus[p], pstatus'[p]>> \in StatusEdges]_vars

\* Component c is behind component d in the direction dir: a buffer of the
\* list of d in that direction leads to c.
Behind(c, d, dir) ==
    \E i \in 1..Len(comp_buffer_list(d, dir)) :
        buffer_get_comp(comp_buffer_list(d, dir)[i], dir) = c

OtherMclkInUse ==
    \E id \in DOMAIN mn_call.pre.used : id # mn_call.mclk_id /\ mn_call.pre.used[id]

C36_SharedSourceKeptWhileInUse ==
    (mn_call.op = "set_mclk" /\ mn_call.mclk_id < DAI_NUM_SSP_MCLK /\ OtherMclkInUse) =>
        /\ mclk_source_clock = mn_call.pre.clock
        /\ ssp_freq[mn_call.pre.clock + 1] % mn_call.mclk_rate # 0 => mn_call.ret = -EINVAL

\* C37: in every reachable state a pipeline whose status is ACTIVE has its
\* periodic task registered with the scheduler; it is never ACTIVE after the
\* task was cancelled or returned "completed".
C37_ActiveHasTask ==
    \A p \in topo.pipes : pstatus[p] = COMP_STATE_ACTIVE => sched_on[p]

\* C38: pipeline_reset changes component states only: the pipeline status,
\* xrun_bytes and the scheduling of the periodic task are the same after it as
\* before it, whatever the walk returns.
C38_ResetKeepsPipelineFields ==
    pcall.op = "pcm_free" =>
        /\ pstatus = pcall.pre.pstatus
        /\ xrun_bytes = pcall.pre.xrun_bytes
        /\ sched_on = pcall.pre.sched_on
        /\ cdir = pcall.pre.cdir
        /\ \A c \in topo.comps : cstate[c] \in {pcall.pre.cstate[c], COMP_STATE_READY}

\* A running pipeline is reset: its components become READY, the pipeline
\* stays ACTIVE with its task scheduled.
C38_Witness ==
    /\ pcall.op = "pcm_free"
    /\ pcall.pre.pstatus[pcall.p] = COMP_STATE_ACTIVE
    /\ pcall.pre.sched_on[pcall.p]
    /\ pcall.pre.cstate[pcall.dev] = COMP_STATE_ACTIVE
    /\ cstate[pcall.dev] = COMP_STATE_READY
    /\ pstatus[pcall.p] = COMP_STATE_ACTIVE /\ sched_on[pcall.p]

\* C39: a "stop" outcome of a component's copy ends the copy cycle and is no
\* failure: pipeline_task does nothing after it, attempts no XRUN recovery,
\* changes no component state, pipeline status or xrun_bytes, and returns
\* "reschedule".
CopyStopped(i) == plog[i].ev = "copy" /\ plog[i].ret = PPL_STATUS_PATH_STOP

C39_StopIsNotAFailure ==
    pcall.op = "task" =>
        \A i \in 1..Len(plog) : CopyStopped(i) =>
            /\ i = Len(plog)
            /\ pcall.ret = SOF_TASK_STATE_RESCHEDULE
            /\ sched_on[pcall.p]
            /\ pcall.pre.xrun_bytes[pcall.p] = 0 =>
                  /\ \A j \in 1..Len(plog) : plog[j].ev = "copy"
                  /\ cstate = pcall.pre.cstate
                  /\ pstatus = pcall.pre.pstatus
                  /\ xrun_bytes = pcall.pre.xrun_bytes

\* C40: pipeline_trigger with a command whose target state the start
\* component already has (START or RELEASE when ACTIVE, PAUSE when PAUSED, STOP
\* when PREPARE), on a pipeline with xrun_bytes = 0, changes no component
\* state, pipeline status, xrun_bytes or task scheduling, and its result is
\* not negative.
AlreadyTriggered ==
    /\ pcall.op = "trigger"
    /\ pcall.pre.xrun_bytes[pcall.p] = 0
    /\ pcall.pre.cstate[pcall.dev] = comp_get_requested_state(pcall.cmd)

C40_RepeatedTriggerIsNoOp ==
    AlreadyTriggered =>
        /\ cstate = pcall.pre.cstate
        /\ pstatus = pcall.pre.pstatus
        /\ xrun_bytes = pcall.pre.xrun_bytes
        /\ sched_on = pcall.pre.sched_on
        /\ pcall.ret >= 0
        /\ Len(plog) = 1
        /\ plog[1].ev = "trigger" /\ plog[1].comp = pcall.dev
        /\ plog[1].ret = COMP_STATUS_STATE_ALREADY_SET

\* A second START on a running pipeline whose task is scheduled.
C40_Witness ==
    /\ AlreadyTriggered
    /\ pcall.cmd = COMP_TRIGGER_START
    /\ \A c \in topo.comps : pcall.pre.cstate[c] = COMP_STATE_ACTIVE
    /\ pcall.pre.pstatus[pcall.p] = COMP_STATE_ACTIVE
    /\ sched_on[pcall.p]
    /\ pcall.ret = PPL_STATUS_PATH_STOP

-----------------------------------------------------------------------------
(* Properties: buffer resize *)

\* C24: a resize to a size below the unread data the buffer holds fails
\* with -EINVAL and leaves size, cursors, avail and free as they were.
C24_ShrinkBelowDataFails ==
    (resize_call.done /\ resize_call.size < resize_call.pre.avail) =>
        /\ resize_call.ret = -EINVAL
        /\ buf = resize_call.pre

-----------------------------------------------------------------------------
(* Properties: parameter propagation *)

\* The rate the frame count of the last call is due for.
TargetRate ==
    IF frames_call.output_rate # 0 THEN frames_call.output_rate ELSE frames_call.rate

=============================================================================
